---- MODULE Spec2Model ----
(***************************************************************************)
(* SnapLog: the log pre-processing pipeline (src/src/report_preprocess.py) *)
(* and the report assembler (src/src/report.py) as state machines.         *)
(*                                                                         *)
(* The pure functions of the pipeline are operators computed the way the   *)
(* code computes them; each has a specification of its own whose Init      *)
(* draws the inputs from bounded sets and whose action applies it:         *)
(*   SpecSessions  split_into_sessions                                     *)
(*   SpecGroups    group_by_app_and_window                                 *)
(*   SpecChunks    split_into_chunks                                       *)
(*   SpecReport    generate_report_for_date, one step per action           *)
(***************************************************************************)
EXTENDS Integers, Sequences, FiniteSets, TLC

VARIABLES
    pc,              \* position of the run
    logs,            \* list of records handed to the splitter / the grouper
    gap_minutes,     \* session threshold, minutes
    sessions,        \* result of split_into_sessions
    grouped,         \* result of group_by_app_and_window
    text,            \* text handed to the chunker
    max_chars,       \* chunker budget
    chunks,          \* result of split_into_chunks; generate_report_for_date's chunk list
    i,               \* generate_report_for_date: 0-based index of the next chunk
    report_chunks,   \* generate_report_for_date: results collected so far
    calls,           \* generation calls made so far, as 0-based chunk indexes
    combined_report, \* the assembled document
    report_file,     \* content of the report file on disk
    raised,          \* exception that left the function, or "none"
    max_retries,     \* LLMClient.max_retries
    attempts,        \* _make_request: outcome of every HTTP attempt made so far
    last_error,      \* _make_request: last_error
    response,        \* _make_request: the content returned, "" while none is
    now,             \* the wall clock, in ticks
    store,           \* the log directory: for every day the lines of its file
    saved,           \* the save_log calls that returned, in call order
    log_file,        \* the log file of the requested date
    mask_sensitive,  \* format_logs_for_llm: whether OCR text is to be masked
    chunk_chars,     \* preprocess_logs: the budget handed to split_into_chunks
    session_groups,  \* preprocess_logs: `grouped` of every pass of the loop
    session_chunks,  \* preprocess_logs: `chunks` at the end of every pass of the loop
    cfg,             \* main: the capture settings the loop was started with
    manual_paused,   \* main: the global manual_paused
    auto_paused,     \* main: the global auto_paused
    resume_block_until, \* main: the global resume_block_until
    auto_pause_reason, \* main: the global auto_pause_reason
    time_now,        \* main: the value time.time() returns
    running,         \* main: the global running
    iteration,       \* run_main_loop: the number of passes that reached the try block
    skip,            \* run_main_loop: the local skip
    image_path,      \* run_main_loop: the local image_path
    window,          \* run_main_loop: the local window
    current_ocr_text, \* run_main_loop: the local ocr_text
    temp_dir,        \* capture: the image files in cfg.capture.temp_dir
    remove_failed,   \* capture: the image files on which os.remove has raised
    last_ocr_text,   \* filter: the global _last_ocr_text
    last_app_name,   \* filter: the global _last_app_name
    stages,          \* run_main_loop: the stages this pass has run, with skip after each
    title,           \* menu_bar: self.title of the menu bar app
    notifications,   \* menu_bar: the titles of the notifications shown, in order
    target_date      \* menu_bar: the local target_date of _generate

request_vars == <<max_retries, attempts, last_error, response>>

store_vars == <<now, store, saved>>

file_vars == <<log_file>>

format_vars == <<mask_sensitive>>

preprocess_vars == <<chunk_chars, session_groups, session_chunks>>

pause_vars == <<cfg, manual_paused, auto_paused, resume_block_until, auto_pause_reason,
                time_now>>

loop_vars == <<running, iteration, skip, image_path, window, current_ocr_text, stages>>

filter_vars == <<last_ocr_text, last_app_name>>

capture_vars == <<loop_vars, temp_dir, remove_failed, filter_vars>>

menu_vars == <<title, notifications, target_date>>

late_vars == <<pause_vars, capture_vars, menu_vars>>

more_vars == <<request_vars, store_vars, file_vars, format_vars, preprocess_vars,
               late_vars>>

except_request == <<store_vars, file_vars, format_vars, preprocess_vars, late_vars>>

except_store == <<request_vars, file_vars, format_vars, preprocess_vars, late_vars>>

except_file == <<request_vars, store_vars, format_vars, preprocess_vars, late_vars>>

except_format == <<request_vars, store_vars, file_vars, preprocess_vars, late_vars>>

except_preprocess == <<request_vars, store_vars, late_vars>>

earlier_vars == <<request_vars, file_vars, format_vars, preprocess_vars>>

core_vars == <<logs, gap_minutes, sessions, grouped, text, max_chars, chunks,
               i, report_chunks, calls, combined_report, report_file>>

vars == <<pc, logs, gap_minutes, sessions, grouped, text, max_chars, chunks,
          i, report_chunks, calls, combined_report, report_file, raised, more_vars>>

----------------------------------------------------------------------------
(* Bounds of the model *)

MaxLogs == 3
MaxLocal == 3
MaxGap == 2
TicksPerMinute == 2
MaxTextLen == 5
MaxBudget == 4
MaxEntries == 3
MaxChunks == 3
MaxRetries == 3
MaxNow == 3
MaxSaves == 3
MaxLines == 3
MaxFormatEntries == 2
TicksPerDay == 2
MaxClock == 4
MaxGrace == 2
MaxIterations == 2

----------------------------------------------------------------------------
(* Sequences *)

Range(s) == {s[k] : k \in DOMAIN s}

SeqsUpTo(S, n) == UNION {[1..m -> S] : m \in 0..n}

BagOf(s) == [x \in Range(s) |-> Cardinality({k \in DOMAIN s : s[k] = x})]

RECURSIVE Flatten(_)
Flatten(ss) == IF ss = <<>> THEN <<>> ELSE Head(ss) \o Flatten(Tail(ss))

RECURSIVE SumLen(_)
SumLen(ss) == IF ss = <<>> THEN 0 ELSE Len(Head(ss)) + SumLen(Tail(ss))

----------------------------------------------------------------------------
(* Records and timestamps                                                  *)
(*                                                                         *)
(* A timestamp string is an offset-aware ISO-8601 string, the form         *)
(* save_log writes: a wall-clock reading and a UTC offset, both counted    *)
(* here in ticks (TicksPerMinute ticks to the minute).  Two different      *)
(* strings can denote the same instant.                                    *)

Offsets == {0, 1}

Timestamps == [local : 0..MaxLocal, offset : Offsets]

\* parse_timestamp, the try branch: the instant an offset-aware string
\* denotes.  Every string of Timestamps parses, so the except branch (the
\* fallback to datetime.now()) is not taken on the inputs drawn here.
parse_timestamp(timestamp_str) == timestamp_str.local - timestamp_str.offset

\* timedelta(minutes=gap_minutes)
timedelta(minutes) == minutes * TicksPerMinute

SessionRecords == [timestamp : Timestamps, app_name : {<<"a">>},
                   window_title : {<<>>}, ocr_text : {<<"x">>}]

----------------------------------------------------------------------------
(* split_into_sessions *)

\* sorted(..., key=...): a stable sort, written as insertion from the left;
\* x goes behind every element whose key is not greater
RECURSIVE InsertByTimeUnstable(_, _)
InsertByTimeUnstable(s, x) ==
    IF s = <<>> THEN <<x>>
    ELSE IF parse_timestamp(x.timestamp) <= parse_timestamp(Head(s).timestamp)
         THEN <<x>> \o s
         ELSE <<Head(s)>> \o InsertByTimeUnstable(Tail(s), x)

RECURSIVE InsertByTime(_, _)
InsertByTime(s, x) ==
    IF s = <<>> THEN <<x>>
    ELSE IF parse_timestamp(x.timestamp) < parse_timestamp(Head(s).timestamp)
         THEN <<x>> \o s
         ELSE <<Head(s)>> \o InsertByTime(Tail(s), x)

RECURSIVE SortByTime(_, _)
SortByTime(done, rest) ==
    IF rest = <<>> THEN done
    ELSE SortByTime(InsertByTime(done, Head(rest)), Tail(rest))

sorted_logs_as_given(ls) == ls

sorted_logs(ls) == SortByTime(<<>>, ls)

GapSplitsStrict(gap, minutes) == gap > timedelta(minutes)

\* the split test of the scan
GapSplits(gap, minutes) == gap >= timedelta(minutes)

\* the scan over sorted_logs[1:], k is the 1-based position of the current record
RECURSIVE SessionScan(_, _, _, _, _)
SessionScan(sl, k, acc, current_session, minutes) ==
    IF k > Len(sl)
    THEN IF current_session # <<>> THEN Append(acc, current_session) ELSE acc
    ELSE LET prev_time == parse_timestamp(sl[k - 1].timestamp)
             curr_time == parse_timestamp(sl[k].timestamp)
             gap == curr_time - prev_time
         IN  IF GapSplits(gap, minutes)
             THEN SessionScan(sl, k + 1, Append(acc, current_session), <<sl[k]>>, minutes)
             ELSE SessionScan(sl, k + 1, acc, Append(current_session, sl[k]), minutes)

split_into_sessions_drops_last(ls, minutes) ==
    IF ls = <<>> THEN <<>>
    ELSE LET sl == sorted_logs(ls)
             all == SessionScan(sl, 2, <<>>, <<sl[1]>>, minutes)
         IN  SubSeq(all, 1, Len(all) - 1)

split_into_sessions(ls, minutes) ==
    IF ls = <<>> THEN <<>>
    ELSE LET sl == sorted_logs(ls)
         IN  SessionScan(sl, 2, <<>>, <<sl[1]>>, minutes)

----------------------------------------------------------------------------
(* split_into_chunks                                                       *)
(*                                                                         *)
(* A text is a sequence of characters; NL is the newline.                  *)

NL == "\n"

Chars == {"a", "b", NL}

Texts == SeqsUpTo(Chars, MaxTextLen)

\* text.split("\n"): the lines of a text, at least one; line k lies between
\* the newlines k - 1 and k
split(t) ==
    LET newlines == {p \in DOMAIN t : t[p] = NL}
        count == Cardinality(newlines) + 1
        at(k) == CHOOSE p \in newlines : Cardinality({q \in newlines : q < p}) = k - 1
        first(k) == IF k = 1 THEN 1 ELSE at(k - 1) + 1
        last(k) == IF k = count THEN Len(t) ELSE at(k) - 1
    IN  [k \in 1..count |-> SubSeq(t, first(k), last(k))]

\* "\n".join(lines)
RECURSIVE join(_)
join(lines) ==
    IF lines = <<>> THEN <<>>
    ELSE IF Len(lines) = 1 THEN lines[1]
         ELSE lines[1] \o <<NL>> \o join(Tail(lines))

line_length_without_newline(line) == Len(line)

\* len(line) + 1, the line and its newline
line_length_of(line) == Len(line) + 1

restart_chunk_empty(line) == <<>>

\* current_chunk = [line], the chunk a flush starts
restart_chunk(line) == <<line>>

over_budget_early(current_length, line_length, budget) ==
    current_length + line_length >= budget

\* current_length + line_length > max_chars
over_budget(current_length, line_length, budget) ==
    current_length + line_length > budget

\* the scan over the lines, k is the 1-based position of the current line
RECURSIVE ChunkScan(_, _, _, _, _, _)
ChunkScan(lines, k, acc, current_chunk, current_length, budget) ==
    IF k > Len(lines)
    THEN IF current_chunk # <<>> THEN Append(acc, join(current_chunk)) ELSE acc
    ELSE LET line == lines[k]
             line_length == line_length_of(line)
         IN  IF over_budget(current_length, line_length, budget) /\ current_chunk # <<>>
             THEN ChunkScan(lines, k + 1, Append(acc, join(current_chunk)),
                            restart_chunk(line), line_length, budget)
             ELSE ChunkScan(lines, k + 1, acc, Append(current_chunk, line),
                            current_length + line_length, budget)

split_into_chunks(t, budget) ==
    IF Len(t) <= budget THEN <<t>>
    ELSE ChunkScan(split(t), 1, <<>>, <<>>, 0, budget)

----------------------------------------------------------------------------
(* group_by_app_and_window                                                 *)
(*                                                                         *)
(* Strings are sequences of characters.  The dict `groups` is the pair of  *)
(* its keys and its values in insertion order.                             *)

AppNames == {<<"a">>, <<"a", ":">>}

WindowTitles == {<<>>, <<":">>}

OcrTexts == {<<>>, <<"x", "y">>}

\* three timestamp strings; the second and the third denote instants in the
\* opposite order of the strings
GroupTimestamps == {[local |-> 0, offset |-> 0], [local |-> 1, offset |-> 0],
                    [local |-> 1, offset |-> 1]}

\* ocr_length is a stored number that is not the length of any OCR text here
GroupRecords == [timestamp : GroupTimestamps, app_name : AppNames,
                 window_title : WindowTitles, ocr_text : OcrTexts,
                 ocr_length : {7}]

\* str < str on two timestamp strings of the fixed-width form with a
\* non-negative offset: the wall-clock part decides, then the offset
str_less(a, b) == a.local < b.local \/ (a.local = b.local /\ a.offset < b.offset)

\* f"{app_name}::{window_title}"
group_key_of(app_name, window_title) == app_name \o <<":", ":">> \o window_title

\* position of a key in the dict, 0 when it is not there
KeyIndex(keys, key) ==
    IF \E n \in DOMAIN keys : keys[n] = key
    THEN CHOOSE n \in DOMAIN keys : keys[n] = key
    ELSE 0

append_entry_once(entries, entry) ==
    IF entry \in Range(entries) THEN entries ELSE Append(entries, entry)

\* groups[group_key]["entries"].append(entry)
append_entry(entries, entry) == Append(entries, entry)

\* one pass of the loop body on the group of the entry's key
ocr_chars_stored(entry) == entry.ocr_length

\* len(ocr_text)
ocr_chars(entry) == Len(entry.ocr_text)

update_group(group, entry) ==
    LET entry_time == entry.timestamp
    IN  [group EXCEPT
            !.entries = append_entry(@, entry),
            !.total_chars = @ + ocr_chars(entry),
            !.start_time = IF str_less(entry_time, @) THEN entry_time ELSE @,
            !.end_time = IF str_less(@, entry_time) THEN entry_time ELSE @]

new_group(entry) ==
    [app_name |-> entry.app_name, window_title |-> entry.window_title,
     entries |-> <<>>, total_chars |-> 0,
     start_time |-> entry.timestamp, end_time |-> entry.timestamp]

\* the loop over the entries, k is the 1-based position of the current entry;
\* the result is the dict's values in insertion order
RECURSIVE GroupScan(_, _, _, _)
GroupScan(ls, k, keys, values) ==
    IF k > Len(ls) THEN values
    ELSE LET entry == ls[k]
             group_key == group_key_of(entry.app_name, entry.window_title)
             found == KeyIndex(keys, group_key)
             keys1 == IF found = 0 THEN Append(keys, group_key) ELSE keys
             values1 == IF found = 0 THEN Append(values, new_group(entry)) ELSE values
             n == IF found = 0 THEN Len(keys1) ELSE found
         IN  GroupScan(ls, k + 1, keys1,
                       [values1 EXCEPT ![n] = update_group(@, entry)])

\* grouped_list.sort(key=start_time): a stable sort, insertion from the left
RECURSIVE InsertByStartUnstable(_, _)
InsertByStartUnstable(s, g) ==
    IF s = <<>> THEN <<g>>
    ELSE IF ~str_less(Head(s).start_time, g.start_time)
         THEN <<g>> \o s
         ELSE <<Head(s)>> \o InsertByStartUnstable(Tail(s), g)

RECURSIVE InsertByStart(_, _)
InsertByStart(s, g) ==
    IF s = <<>> THEN <<g>>
    ELSE IF str_less(g.start_time, Head(s).start_time)
         THEN <<g>> \o s
         ELSE <<Head(s)>> \o InsertByStart(Tail(s), g)

RECURSIVE SortByStart(_, _)
SortByStart(done, rest) ==
    IF rest = <<>> THEN done
    ELSE SortByStart(InsertByStart(done, Head(rest)), Tail(rest))

group_by_app_and_window(ls) == SortByStart(<<>>, GroupScan(ls, 1, <<>>, <<>>))

----------------------------------------------------------------------------
(* generate_report_for_date                                                *)
(*                                                                         *)
(* Chunk texts and generated reports are tokens.  A document is the list   *)
(* of the pieces that "\n".join puts together.                             *)

ChunkTexts == {"c1", "c2"}

Reports == {"r1", "r2"}

\* error_msg, the inline note "## エラー ..."
error_msg == "error_note"

\* an earlier report of the same name, and no file at all
OldReport == <<[kind |-> "old", body |-> "", index |-> 0, of |-> 0]>>

NoFile == <<>>

\* generate_report_header
generate_report_header == [kind |-> "header", body |-> "", index |-> 0, of |-> 0]

Rule == [kind |-> "rule", body |-> "", index |-> 0, of |-> 0]

Continued(n, total) == [kind |-> "continued", body |-> "", index |-> n, of |-> total]

Body(report) == [kind |-> "body", body |-> report, index |-> 0, of |-> 0]

\* combine_reports: the loop over enumerate(reports), k is 1-based
RECURSIVE CombineScan(_, _, _)
CombineScan(reports, k, combined) ==
    IF k > Len(reports) THEN combined
    ELSE CombineScan(reports, k + 1,
            (IF k > 1 THEN combined \o <<Rule, Continued(k, Len(reports))>> ELSE combined)
                \o <<Body(reports[k])>>)

combine_reports(reports) == CombineScan(reports, 1, <<generate_report_header>>)

combined_report_of_bare(rc) ==
    IF Len(rc) > 1 THEN combine_reports(rc)
    ELSE IF rc # <<>> THEN <<Body(rc[1])>> ELSE <<>>

\* step 4 of generate_report_for_date
combined_report_of(rc) ==
    IF Len(rc) > 1 THEN combine_reports(rc)
    ELSE IF rc # <<>> THEN <<generate_report_header, Body(rc[1])>> ELSE <<>>

enumerate_skips(idx) == idx + 2

\* for i, chunk in enumerate(chunks): the index of the next pass
enumerate_next(idx) == idx + 1

except_LLMClientError_swallows(rc) ==
    [pc |-> "loop", report_chunks |-> Append(rc, error_msg), raised |-> "none"]

\* the handler of LLMClientError in the loop: with results collected the
\* note is appended and the for loop goes on to the next chunk, with none
\* the error is raised again
except_LLMClientError(rc) ==
    IF rc # <<>>
    THEN [pc |-> "loop", report_chunks |-> Append(rc, error_msg), raised |-> "none"]
    ELSE [pc |-> "raised", report_chunks |-> rc, raised |-> "LLMClientError"]

----------------------------------------------------------------------------
(* LLMClient._make_request                                                 *)
(*                                                                         *)
(* One HTTP attempt ends in one of these ways: the response carries a      *)
(* non-empty content; requests raises Timeout, ConnectionError, HTTPError  *)
(* (from raise_for_status) or another RequestException; or anything else   *)
(* goes wrong (no choices, empty content, a body that is no JSON).         *)

RetriedOutcomes == {"timeout", "connection", "http", "request"}

range_one_more(attempt, retries) == attempt <= retries

\* for attempt in range(self.max_retries): the loop has a pass for attempt
range_has(attempt, retries) == attempt < retries

\* if attempt < self.max_retries - 1: sleep and continue
attempts_remain(attempt, retries) == attempt < retries - 1

----------------------------------------------------------------------------
(* save_log                                                                *)
(*                                                                         *)
(* The log directory holds one file per calendar day; a file is the list   *)
(* of its lines, a line the JSON text of one entry.                        *)

Days == 0..(MaxNow \div TicksPerDay)

\* datetime.now().strftime("%Y-%m-%d"), the day a clock reading falls on
today_of(clock) == clock \div TicksPerDay

\* datetime.now().astimezone().isoformat(), in a zone of offset 0
isoformat(clock) == [local |-> clock, offset |-> 0]

\* the dict log_entry
log_entry_of(clock, app_name, window_title, ocr_text) ==
    [timestamp |-> isoformat(clock), app_name |-> app_name,
     window_title |-> window_title, ocr_text |-> ocr_text,
     ocr_length |-> Len(ocr_text)]

\* json.dumps(log_entry): one line of text, whatever the strings hold
json_line_of(log_entry) == [json |-> TRUE, entry |-> log_entry]

\* a file from an earlier run of the program
EarlierLines == <<json_line_of(log_entry_of(0, <<"a">>, <<>>, <<"o">>))>>

write_truncating(lines, json_line) == <<json_line>>

\* open(log_file_path, "a") and f.write(json_line + "\n")
write_appending(lines, json_line) == Append(lines, json_line)

----------------------------------------------------------------------------
(* load_logs_by_date, and parse_timestamp with its fallback                *)
(*                                                                         *)
(* A line of the log file is a JSON record, a text json.loads rejects, or  *)
(* blank.  The timestamp string of a record is parsable (iso) or not; a    *)
(* datetime is aware (it came from a string with an offset) or naive (it   *)
(* is a reading of datetime.now()).                                        *)

LoadTimestamps ==
    [iso : {TRUE}, local : 0..1, offset : Offsets]
        \cup {[iso |-> FALSE, local |-> 0, offset |-> 0]}

LoadRecords == [timestamp : LoadTimestamps, app_name : {<<"a">>},
                window_title : {<<>>}, ocr_text : {<<"x">>}]

NoEntry == [timestamp |-> [iso |-> FALSE, local |-> 0, offset |-> 0],
            app_name |-> <<>>, window_title |-> <<>>, ocr_text |-> <<>>]

FileLines ==
    [json : {"record"}, entry : LoadRecords]
        \cup [json : {"malformed", "blank"}, entry : {NoEntry}]

LogFiles ==
    {[exists |-> FALSE, lines |-> <<>>]}
        \cup [exists : {TRUE}, lines : SeqsUpTo(FileLines, MaxLines)]

\* the loop over the lines: blank lines and lines json.loads rejects are passed over
RECURSIVE LoadScan(_)
LoadScan(lines) ==
    IF lines = <<>> THEN <<>>
    ELSE (IF Head(lines).json = "record" THEN <<Head(lines).entry>> ELSE <<>>)
             \o LoadScan(Tail(lines))

load_logs_by_date(file) ==
    IF ~file.exists THEN <<>> ELSE LoadScan(file.lines)

\* parse_timestamp, both branches: the datetime of the string, or the clock
parse_timestamp_or_now(timestamp_str, clock) ==
    IF timestamp_str.iso
    THEN [aware |-> TRUE, at |-> parse_timestamp(timestamp_str)]
    ELSE [aware |-> FALSE, at |-> clock]

\* comparing or subtracting an aware and a naive datetime raises TypeError
datetime_mismatch(a, b) == a.aware # b.aware

\* sorted() of two or more records compares keys across every division of
\* the list in two, so it raises when the keys are of both kinds
sorted_raises(ls, clock) ==
    \E j, k \in DOMAIN ls :
        datetime_mismatch(parse_timestamp_or_now(ls[j].timestamp, clock),
                          parse_timestamp_or_now(ls[k].timestamp, clock))

\* split_into_sessions of records whose timestamps all fall back to the
\* clock: the readings ascend in input order, and the two readings of one
\* loop step are no measurable time apart
RECURSIVE NaiveScan(_, _, _, _, _)
NaiveScan(sl, k, acc, current_session, minutes) ==
    IF k > Len(sl) THEN Append(acc, current_session)
    ELSE IF GapSplits(0, minutes)
         THEN NaiveScan(sl, k + 1, Append(acc, current_session), <<sl[k]>>, minutes)
         ELSE NaiveScan(sl, k + 1, acc, Append(current_session, sl[k]), minutes)

\* split_into_sessions over records of every kind of timestamp: what it
\* returns, or "TypeError"
split_into_sessions_outcome(ls, minutes, clock) ==
    IF ls = <<>> THEN [raises |-> "none", sessions |-> <<>>]
    ELSE IF sorted_raises(ls, clock)
         THEN [raises |-> "TypeError", sessions |-> <<>>]
         ELSE IF \A k \in DOMAIN ls : ls[k].timestamp.iso
              THEN [raises |-> "none", sessions |-> split_into_sessions(ls, minutes)]
              ELSE [raises |-> "none",
                    sessions |-> NaiveScan(ls, 2, <<>>, <<ls[1]>>, minutes)]

----------------------------------------------------------------------------
(* mask_sensitive_info and format_logs_for_llm                             *)
(*                                                                         *)
(* The Japanese label characters are written with one Latin letter each,   *)
(* so every label keeps its length.  A timestamp string is written as its  *)
(* wall-clock part, a plus sign and its offset.                            *)

Digits == <<"0", "1", "2", "3", "4", "5", "6", "7", "8", "9">>

\* str(n) of a natural number
RECURSIVE str(_)
str(n) ==
    IF n < 10 THEN <<Digits[n + 1]>>
    ELSE str(n \div 10) \o <<Digits[(n % 10) + 1]>>

\* the characters of a timestamp string; a string that is no timestamp is "?"
timestamp_chars(timestamp_str) ==
    IF "iso" \in DOMAIN timestamp_str /\ ~timestamp_str.iso THEN <<"?">>
    ELSE str(timestamp_str.local) \o <<"+">> \o str(timestamp_str.offset)

Whitespace == {" ", NL}

Http == <<"h", "t", "t", "p", ":", "/", "/">>

Https == <<"h", "t", "t", "p", "s", ":", "/", "/">>

UrlMark == <<"[", "U", "R", "L", "]">>

StartsWith(t, prefix) ==
    Len(t) >= Len(prefix) /\ SubSeq(t, 1, Len(prefix)) = prefix

\* the length of the longest run of [^\s] at the head of t
RECURSIVE NonSpaceRun(_)
NonSpaceRun(t) ==
    IF t = <<>> \/ Head(t) \in Whitespace THEN 0 ELSE 1 + NonSpaceRun(Tail(t))

Drop(t, n) == SubSeq(t, n + 1, Len(t))

\* the length of the match of https?://[^\s]+ at the head of t, 0 when none
UrlMatch(t) ==
    IF StartsWith(t, Https) /\ NonSpaceRun(Drop(t, Len(Https))) > 0
    THEN Len(Https) + NonSpaceRun(Drop(t, Len(Https)))
    ELSE IF StartsWith(t, Http) /\ NonSpaceRun(Drop(t, Len(Http))) > 0
         THEN Len(Http) + NonSpaceRun(Drop(t, Len(Http)))
         ELSE 0

\* re.sub(r'https?://[^\s]+', '[URL]', text)
RECURSIVE MaskUrls(_)
MaskUrls(t) ==
    IF t = <<>> THEN <<>>
    ELSE IF UrlMatch(t) > 0
         THEN UrlMark \o MaskUrls(Drop(t, UrlMatch(t)))
         ELSE <<Head(t)>> \o MaskUrls(Tail(t))

\* mask_sensitive_info on texts without "@" and without digits: the e-mail
\* pattern needs an "@" and the card pattern sixteen digits, so on these
\* texts only the URL pattern can match
mask_sensitive_info(t) == MaskUrls(t)

mask_always(flag, ocr_text) == mask_sensitive_info(ocr_text)

\* if mask_sensitive: ocr_text = mask_sensitive_info(ocr_text)
mask_if(flag, ocr_text) == IF flag THEN mask_sensitive_info(ocr_text) ELSE ocr_text

\* the loop over the entries of a group: the non-empty OCR texts
RECURSIVE OcrScan(_, _)
OcrScan(entries, flag) ==
    IF entries = <<>> THEN <<>>
    ELSE (IF Head(entries).ocr_text # <<>>
          THEN <<mask_if(flag, Head(entries).ocr_text)>>
          ELSE <<>>) \o OcrScan(Tail(entries), flag)

\* f"【{app_name}】"
AppLine(app_name) == <<"[">> \o app_name \o <<"]">>

\* f"ウィンドウ: {window_title}"
WindowLine(window_title) == <<"W", "i", "n", "d", "o", ":", " ">> \o window_title

\* f"時間: {start_time} ～ {end_time}"
TimeLine(start_time, end_time) ==
    <<"T", "m", ":", " ">> \o timestamp_chars(start_time) \o <<" ", "~", " ">>
        \o timestamp_chars(end_time)

\* f"エントリ数: {len(entries)}, 総文字数: {total_chars}"
CountLine(entries, total_chars) ==
    <<"E", "n", "t", "r", "y", ":", " ">> \o str(Len(entries))
        \o <<",", " ", "T", "o", "t", "l", ":", " ">> \o str(total_chars)

RuleLine == <<"-", "-", "-">>

\* the lines one group adds
group_lines(group, flag) ==
    LET ocr_texts == OcrScan(group.entries, flag)
    IN  <<AppLine(group.app_name)>>
            \o (IF group.window_title # <<>>
                THEN <<WindowLine(group.window_title)>> ELSE <<>>)
            \o <<TimeLine(group.start_time, group.end_time),
                 CountLine(group.entries, group.total_chars), <<>>>>
            \o (IF ocr_texts # <<>> THEN <<join(ocr_texts)>> ELSE <<>>)
            \o <<<<>>, RuleLine, <<>>>>

\* the loop over the groups
RECURSIVE FormatScan(_, _)
FormatScan(grouped_logs, flag) ==
    IF grouped_logs = <<>> THEN <<>>
    ELSE group_lines(Head(grouped_logs), flag) \o FormatScan(Tail(grouped_logs), flag)

format_logs_for_llm(grouped_logs, flag) == join(FormatScan(grouped_logs, flag))

----------------------------------------------------------------------------
(* preprocess_logs *)

\* f"【セッション {session_idx + 1}/{len(sessions)}】\n\n"
session_header(session_idx, total) ==
    <<"[", "S", "e", "s", "s", "n", " ">> \o str(session_idx + 1) \o <<"/">>
        \o str(total) \o <<"]", NL, NL>>

records_of_all_sessions(ss, session_idx) == Flatten(ss)

\* for session_idx, session in enumerate(sessions)
records_of_session(ss, session_idx) == ss[session_idx + 1]

\* steps 4 and 5 of one pass of the loop, and the header put before every
\* chunk when there is more than one session
session_chunks_of(groups, session_idx, total, budget, flag) ==
    LET formatted_text == format_logs_for_llm(groups, flag)
        cs == split_into_chunks(formatted_text, budget)
    IN  IF total > 1
        THEN [c \in DOMAIN cs |-> session_header(session_idx, total) \o cs[c]]
        ELSE cs

NoChunks(error) ==
    [raises |-> error, logs |-> <<>>, sessions |-> <<>>, session_groups |-> <<>>,
     session_chunks |-> <<>>, chunks |-> <<>>]

\* preprocess_logs: what it returns in `chunks`, or the error it raises,
\* with the values its steps went through
preprocess_logs(file, minutes, budget, flag, clock) ==
    LET ls == load_logs_by_date(file)
    IN  IF ls = <<>> THEN NoChunks("none")
        ELSE LET outcome == split_into_sessions_outcome(ls, minutes, clock)
                 ss == outcome.sessions
                 groups == [k \in DOMAIN ss |->
                               group_by_app_and_window(records_of_session(ss, k - 1))]
                 per == [k \in DOMAIN ss |->
                            session_chunks_of(groups[k], k - 1, Len(ss), budget, flag)]
             IN  IF outcome.raises # "none"
                 THEN [NoChunks(outcome.raises) EXCEPT !.logs = ls]
                 ELSE [raises |-> "none", logs |-> ls, sessions |-> ss,
                       session_groups |-> groups, session_chunks |-> per,
                       chunks |-> Flatten(per)]

----------------------------------------------------------------------------
(* Idle values of the variables a specification does not use *)

IdleSessions == logs = <<>> /\ gap_minutes = 0 /\ sessions = <<>>
IdleGroups == grouped = <<>>
IdleChunks == text = <<>> /\ max_chars = 0 /\ chunks = <<>>
IdleReport == /\ i = 0 /\ report_chunks = <<>> /\ calls = <<>>
              /\ combined_report = <<>> /\ report_file = <<>> /\ raised = "none"
IdleRequest == max_retries = 0 /\ attempts = <<>> /\ last_error = "none" /\ response = ""
IdleStore == now = 0 /\ store = <<>> /\ saved = <<>>
IdleFile == log_file = [exists |-> FALSE, lines |-> <<>>]
IdleFormat == mask_sensitive = FALSE
IdlePreprocess == chunk_chars = 0 /\ session_groups = <<>> /\ session_chunks = <<>>
IdlePause ==
    /\ cfg = <<>> /\ manual_paused = FALSE /\ auto_paused = FALSE
    /\ resume_block_until = -1 /\ auto_pause_reason = <<>> /\ time_now = 0
IdleCapture ==
    /\ running = FALSE /\ iteration = 0 /\ skip = FALSE /\ image_path = 0
    /\ window = <<>> /\ current_ocr_text = <<>> /\ stages = <<>>
    /\ temp_dir = {} /\ remove_failed = {}
    /\ last_ocr_text = <<>> /\ last_app_name = <<>>
IdleMenu == title = "SnapLog" /\ notifications = <<>> /\ target_date = 0
IdleLate == IdlePause /\ IdleCapture /\ IdleMenu
IdleEarlier == IdleRequest /\ IdleFile /\ IdleFormat /\ IdlePreprocess
IdleMore == IdleRequest /\ IdleStore /\ IdleFile /\ IdleFormat /\ IdlePreprocess /\ IdleLate

----------------------------------------------------------------------------
(* SpecSessions *)

InitSessions ==
    /\ IdleMore
    /\ pc = "sessions_call"
    /\ logs \in SeqsUpTo(SessionRecords, MaxLogs)
    /\ gap_minutes \in -1..MaxGap
    /\ sessions = <<>>
    /\ IdleGroups /\ IdleChunks /\ IdleReport

SplitIntoSessions ==
    /\ pc = "sessions_call"
    /\ sessions' = split_into_sessions(logs, gap_minutes)
    /\ pc' = "sessions_return"
    /\ UNCHANGED <<more_vars, logs, gap_minutes, grouped, text, max_chars, chunks,
                   i, report_chunks, calls, combined_report, report_file, raised>>

NextSessions == SplitIntoSessions

SpecSessions == InitSessions /\ [][NextSessions]_vars

\* the sessions laid end to end, and the session a position of that list lies in
FlatSessions == Flatten(sessions)

SessionOf(k) ==
    CHOOSE n \in DOMAIN sessions :
        /\ SumLen(SubSeq(sessions, 1, n - 1)) < k
        /\ k <= SumLen(SubSeq(sessions, 1, n))

InstantOf(r) == r.timestamp.local - r.timestamp.offset

TimeOrdered(s) == \A k \in 1..(Len(s) - 1) : InstantOf(s[k]) <= InstantOf(s[k + 1])

\* C1: split_into_sessions partitions its input: no session is empty, the
\* sessions together hold every input record exactly once (as many copies
\* of a record as the input has), their lengths add up to the number of
\* input records, and an empty input gives an empty result.
C1_SessionsPartitionInput ==
    pc = "sessions_return" =>
        /\ \A n \in DOMAIN sessions : sessions[n] # <<>>
        /\ SumLen(sessions) = Len(logs)
        /\ BagOf(FlatSessions) = BagOf(logs)
        /\ (logs = <<>> => sessions = <<>>)

\* an unordered input with two records of one instant, split in two sessions
C1_Witness ==
    /\ pc = "sessions_return"
    /\ Len(logs) = 3
    /\ InstantOf(logs[1]) > InstantOf(logs[2])
    /\ InstantOf(logs[2]) = InstantOf(logs[3])
    /\ logs[2] # logs[3]
    /\ Len(sessions) = 2

\* C2: the sessions laid end to end are in timestamp order, and two
\* neighbours of that order lie in different sessions exactly when their
\* instants differ by gap_minutes minutes or more (inclusive threshold).
C2_GapThreshold ==
    pc = "sessions_return" =>
        /\ TimeOrdered(FlatSessions)
        /\ \A k \in 1..(Len(FlatSessions) - 1) :
              (SessionOf(k) # SessionOf(k + 1))
                  <=> (InstantOf(FlatSessions[k + 1]) - InstantOf(FlatSessions[k])
                          >= gap_minutes * TicksPerMinute)

\* the scenario 10:00, 10:05, 10:20 at the model's scale: a gap below the
\* threshold, then a gap of exactly the threshold; sessions of sizes 2 and 1
C2_Witness ==
    /\ pc = "sessions_return"
    /\ gap_minutes = 1
    /\ Len(FlatSessions) = 3
    /\ InstantOf(FlatSessions[2]) - InstantOf(FlatSessions[1]) = TicksPerMinute - 1
    /\ InstantOf(FlatSessions[3]) - InstantOf(FlatSessions[2]) = TicksPerMinute
    /\ Len(sessions) = 2 /\ Len(sessions[1]) = 2 /\ Len(sessions[2]) = 1

----------------------------------------------------------------------------
(* SpecChunks *)

InitChunks ==
    /\ IdleMore
    /\ pc = "chunks_call"
    /\ text \in Texts
    /\ max_chars \in 1..MaxBudget
    /\ chunks = <<>>
    /\ IdleSessions /\ IdleGroups /\ IdleReport

SplitIntoChunks ==
    /\ pc = "chunks_call"
    /\ chunks' = split_into_chunks(text, max_chars)
    /\ pc' = "chunks_return"
    /\ UNCHANGED <<more_vars, logs, gap_minutes, sessions, grouped, text, max_chars,
                   i, report_chunks, calls, combined_report, report_file, raised>>

NextChunks == SplitIntoChunks

SpecChunks == InitChunks /\ [][NextChunks]_vars

\* the lines of a text, counted by its newlines
LinesOf(t) ==
    LET cuts == <<0>> \o SelectSeq([k \in 1..Len(t) |-> IF t[k] = NL THEN k ELSE 0],
                                    LAMBDA k : k > 0) \o <<Len(t) + 1>>
    IN  [n \in 1..(Len(cuts) - 1) |-> SubSeq(t, cuts[n] + 1, cuts[n + 1] - 1)]

\* the chunks written one after the other with a newline between two of them
RECURSIVE Glue(_)
Glue(cs) ==
    IF cs = <<>> THEN <<>>
    ELSE IF Len(cs) = 1 THEN cs[1] ELSE cs[1] \o <<NL>> \o Glue(Tail(cs))

ChunkLines == [c \in DOMAIN chunks |-> LinesOf(chunks[c])]

C4_LongTextIsCut ==
    (pc = "chunks_return" /\ Len(text) > max_chars) =>
        /\ Len(chunks) > 1
        /\ \A c \in DOMAIN chunks : Len(chunks[c]) <= max_chars

\* C5: a non-empty text gives non-empty chunks only.
C5_NoEmptyChunk ==
    (pc = "chunks_return" /\ text # <<>>) =>
        \A c \in DOMAIN chunks : chunks[c] # <<>>

\* C6: a chunk longer than max_chars is one line that alone is longer than
\* max_chars, and a chunk of two lines or more has at most max_chars
\* characters.
C6_BudgetOnlyExceededBySingleLine ==
    pc = "chunks_return" =>
        \A c \in DOMAIN chunks :
            /\ Len(chunks[c]) > max_chars =>
                   /\ Len(ChunkLines[c]) = 1
                   /\ Len(ChunkLines[c][1]) > max_chars
            /\ Len(ChunkLines[c]) >= 2 => Len(chunks[c]) <= max_chars

\* a cut text with a chunk over the budget and a chunk of two lines
C6_Witness ==
    /\ pc = "chunks_return"
    /\ Len(chunks) >= 2
    /\ \E c \in DOMAIN chunks : Len(chunks[c]) > max_chars
    /\ \E c \in DOMAIN chunks : Len(ChunkLines[c]) >= 2

----------------------------------------------------------------------------
(* SpecGroups *)

InitGroups ==
    /\ IdleMore
    /\ pc = "groups_call"
    /\ logs \in SeqsUpTo(GroupRecords, MaxEntries)
    /\ grouped = <<>>
    /\ gap_minutes = 0 /\ sessions = <<>>
    /\ IdleChunks /\ IdleReport

GroupByAppAndWindow ==
    /\ pc = "groups_call"
    /\ grouped' = group_by_app_and_window(logs)
    /\ pc' = "groups_return"
    /\ UNCHANGED <<more_vars, logs, gap_minutes, sessions, text, max_chars, chunks,
                   i, report_chunks, calls, combined_report, report_file, raised>>

NextGroups == GroupByAppAndWindow

SpecGroups == InitGroups /\ [][NextGroups]_vars

GroupEntries == [g \in DOMAIN grouped |-> grouped[g].entries]

SamePair(r1, r2) == r1.app_name = r2.app_name /\ r1.window_title = r2.window_title

\* C7: the groups' member lists together hold every record of the session
\* exactly once: their lengths add up to the number of records, and they
\* hold as many copies of each record as the session has.
C7_GroupingComplete ==
    pc = "groups_return" =>
        /\ SumLen(GroupEntries) = Len(logs)
        /\ BagOf(Flatten(GroupEntries)) = BagOf(logs)

\* a session with the same record twice and a record of another window:
\* two groups, one of two members
C7_Witness ==
    /\ pc = "groups_return"
    /\ Len(logs) = 3
    /\ logs[1] = logs[3]
    /\ ~SamePair(logs[1], logs[2])
    /\ Len(grouped) = 2
    /\ \E g \in DOMAIN grouped : Len(grouped[g].entries) = 2

\* C8: two records are in the same group exactly when their
\* (app_name, window_title) pairs are equal.
C8_GroupedByExactPair ==
    pc = "groups_return" =>
        \A g1, g2 \in DOMAIN grouped :
            \A e1 \in Range(grouped[g1].entries), e2 \in Range(grouped[g2].entries) :
                (g1 = g2) <=> SamePair(e1, e2)

----------------------------------------------------------------------------
(* SpecReport: one run of generate_report_for_date.  chunks is what        *)
(* preprocess_logs returns for the date; every generation call returns a   *)
(* report or raises LLMClientError.                                        *)

InitReport ==
    /\ IdleMore
    /\ pc = "preprocess"
    /\ chunks \in SeqsUpTo(ChunkTexts, MaxChunks)
    /\ i = 0
    /\ report_chunks = <<>>
    /\ calls = <<>>
    /\ combined_report = <<>>
    /\ report_file \in {NoFile, OldReport}
    /\ raised = "none"
    /\ IdleSessions /\ IdleGroups /\ text = <<>> /\ max_chars = 0

\* step 1: preprocess_logs returns the chunks; none is the ValueError
PreprocessLogs ==
    /\ pc = "preprocess"
    /\ IF chunks = <<>>
       THEN pc' = "raised" /\ raised' = "ValueError"
       ELSE pc' = "loop" /\ raised' = raised
    /\ UNCHANGED <<more_vars, logs, gap_minutes, sessions, grouped, text, max_chars, chunks,
                   i, report_chunks, calls, combined_report, report_file>>

\* step 1: reading the log file fails and the error is raised again
PreprocessLogsRaises ==
    /\ pc = "preprocess"
    /\ pc' = "raised"
    /\ raised' = "OSError"
    /\ UNCHANGED <<more_vars, logs, gap_minutes, sessions, grouped, text, max_chars, chunks,
                   i, report_chunks, calls, combined_report, report_file>>

\* step 3, one pass of the loop: client.generate_report returns a report
GenerateReportReturns ==
    /\ pc = "loop"
    /\ i < Len(chunks)
    /\ \E report_chunk \in Reports :
           report_chunks' = Append(report_chunks, report_chunk)
    /\ calls' = Append(calls, [chunk |-> i, ok |-> TRUE])
    /\ i' = enumerate_next(i)
    /\ UNCHANGED <<more_vars, pc, logs, gap_minutes, sessions, grouped, text, max_chars, chunks,
                   combined_report, report_file, raised>>

\* step 3, one pass of the loop: client.generate_report raises LLMClientError
GenerateReportRaises ==
    /\ pc = "loop"
    /\ i < Len(chunks)
    /\ calls' = Append(calls, [chunk |-> i, ok |-> FALSE])
    /\ LET after == except_LLMClientError(report_chunks)
       IN  /\ pc' = after.pc
           /\ report_chunks' = after.report_chunks
           /\ raised' = after.raised
           /\ i' = IF after.pc = "loop" THEN enumerate_next(i) ELSE i
    /\ UNCHANGED <<more_vars, logs, gap_minutes, sessions, grouped, text, max_chars, chunks,
                   combined_report, report_file>>

\* step 4: the loop is over, the document is put together
CombineReports ==
    /\ pc = "loop"
    /\ i = Len(chunks)
    /\ combined_report' = combined_report_of(report_chunks)
    /\ pc' = "save"
    /\ UNCHANGED <<more_vars, logs, gap_minutes, sessions, grouped, text, max_chars, chunks,
                   i, report_chunks, calls, report_file, raised>>

\* step 5: save_report writes the file, replacing an earlier one
SaveReport ==
    /\ pc = "save"
    /\ report_file' = combined_report
    /\ pc' = "done"
    /\ UNCHANGED <<more_vars, logs, gap_minutes, sessions, grouped, text, max_chars, chunks,
                   i, report_chunks, calls, combined_report, raised>>

\* step 5: save_report fails, before the file is opened or after open(.., "w")
\* has emptied it
SaveReportRaises ==
    /\ pc = "save"
    /\ report_file' \in {report_file, NoFile}
    /\ pc' = "raised"
    /\ raised' = "OSError"
    /\ UNCHANGED <<more_vars, logs, gap_minutes, sessions, grouped, text, max_chars, chunks,
                   i, report_chunks, calls, combined_report>>

NextReport ==
    \/ PreprocessLogs
    \/ PreprocessLogsRaises
    \/ GenerateReportReturns
    \/ GenerateReportRaises
    \/ CombineReports
    \/ SaveReport
    \/ SaveReportRaises

SpecReport == InitReport /\ [][NextReport]_vars

\* a generation call failed; an earlier one had succeeded
FailedAfterSuccess(k) ==
    /\ k \in DOMAIN calls
    /\ ~calls[k].ok
    /\ \E j \in 1..(k - 1) : calls[j].ok

\* a generation call failed and no earlier one had succeeded
FailedBeforeAnySuccess(k) ==
    /\ k \in DOMAIN calls
    /\ ~calls[k].ok
    /\ \A j \in 1..(k - 1) : ~calls[j].ok

\* C9: a failed generation call that follows a successful one is the last
\* call of the run (no later chunk is attempted), its error note is the last
\* result collected, the run does not raise LLMClientError, and the file
\* written at the end holds the partial report.
C9_FailureAfterSuccessStops ==
    \A k \in DOMAIN calls :
        FailedAfterSuccess(k) =>
            /\ k = Len(calls)
            /\ report_chunks[Len(report_chunks)] = error_msg
            /\ raised # "LLMClientError"
            /\ (pc = "done" => report_file = combined_report_of(report_chunks))

\* C10: when a generation call fails and none has succeeded before, it is
\* the last call of the run, LLMClientError leaves the function, no document
\* is put together and the report file is as it was before the run.
C10_FailureBeforeSuccessPropagates ==
    \A k \in DOMAIN calls :
        FailedBeforeAnySuccess(k) =>
            /\ k = Len(calls)
            /\ pc = "raised" /\ raised = "LLMClientError"
            /\ report_chunks = <<>>
            /\ combined_report = <<>>
            /\ report_file \in {NoFile, OldReport}

\* a run over several chunks whose first generation call failed
C10_Witness ==
    /\ Len(chunks) >= 2
    /\ calls = <<[chunk |-> 0, ok |-> FALSE]>>
    /\ pc = "raised"

\* C11: the generation calls are made in chunk order, each chunk at most
\* once (the k-th call of a run is for chunk k, one call per step of the
\* loop), and a run that reaches the assembly without a failed call has
\* called every chunk exactly once.
C11_CallsInOrderOncePerChunk ==
    /\ \A k \in DOMAIN calls : calls[k].chunk = k - 1
    /\ Len(calls) <= Len(chunks)
    /\ (pc \in {"save", "done"} /\ \A k \in DOMAIN calls : calls[k].ok)
           => Len(calls) = Len(chunks)

\* a finished run over three chunks, no call failed
C11_Witness ==
    /\ pc = "done"
    /\ Len(chunks) = 3
    /\ Len(calls) = 3
    /\ \A k \in DOMAIN calls : calls[k].ok

\* C12: the document starts with the date header, which occurs once; the
\* first result follows it directly; every later result k of n is preceded
\* by a rule and the sub-header "continued (k/n)", the results in order.
C12_AssembledDocument ==
    pc \in {"save", "done"} =>
        LET n == Len(report_chunks)
            d == combined_report
        IN  /\ n >= 1
            /\ Len(d) = 3 * n - 1
            /\ d[1].kind = "header"
            /\ Cardinality({p \in DOMAIN d : d[p].kind = "header"}) = 1
            /\ d[2].kind = "body" /\ d[2].body = report_chunks[1]
            /\ \A k \in 2..n :
                   /\ d[3 * k - 3].kind = "rule"
                   /\ d[3 * k - 2].kind = "continued"
                   /\ d[3 * k - 2].index = k /\ d[3 * k - 2].of = n
                   /\ d[3 * k - 1].kind = "body"
                   /\ d[3 * k - 1].body = report_chunks[k]

\* a written document of three results
C12_Witness ==
    /\ pc = "done"
    /\ Len(report_chunks) = 3
    /\ report_file = combined_report
    /\ report_chunks[1] # report_chunks[2]

----------------------------------------------------------------------------
(* SpecRequest: one call of LLMClient._make_request.  The 0-based number   *)
(* of the current attempt is the number of attempts made.                  *)

InitRequest ==
    /\ pc = "request"
    /\ IdleStore /\ IdleFile /\ IdleFormat /\ IdlePreprocess /\ IdleLate
    /\ max_retries \in 0..MaxRetries
    /\ attempts = <<>>
    /\ last_error = "none"
    /\ response = ""
    /\ raised = "none"
    /\ IdleSessions /\ IdleGroups /\ IdleChunks
    /\ i = 0 /\ report_chunks = <<>> /\ calls = <<>>
    /\ combined_report = <<>> /\ report_file = <<>>

\* the response has choices and a non-empty content: return content
PostReturnsContent ==
    /\ pc = "request"
    /\ range_has(Len(attempts), max_retries)
    /\ attempts' = Append(attempts, "ok")
    /\ \E content \in Reports : response' = content
    /\ pc' = "request_returned"
    /\ UNCHANGED <<core_vars, except_request, raised, max_retries, last_error>>

\* except requests.exceptions.Timeout: retry, or leave the handler and with
\* it the loop's last pass
PostTimeout ==
    /\ pc = "request"
    /\ range_has(Len(attempts), max_retries)
    /\ attempts' = Append(attempts, "timeout")
    /\ last_error' = "timeout"
    /\ UNCHANGED <<core_vars, except_request, pc, raised, max_retries, response>>

\* except requests.exceptions.ConnectionError: retry, or raise LLMClientError
PostConnectionError ==
    /\ pc = "request"
    /\ range_has(Len(attempts), max_retries)
    /\ attempts' = Append(attempts, "connection")
    /\ last_error' = "connection"
    /\ IF attempts_remain(Len(attempts), max_retries)
       THEN UNCHANGED <<pc, raised>>
       ELSE pc' = "request_raised" /\ raised' = "LLMClientError"
    /\ UNCHANGED <<core_vars, except_request, max_retries, response>>

\* except requests.exceptions.HTTPError: retry, or raise LLMClientError
PostHTTPError ==
    /\ pc = "request"
    /\ range_has(Len(attempts), max_retries)
    /\ attempts' = Append(attempts, "http")
    /\ last_error' = "http"
    /\ IF attempts_remain(Len(attempts), max_retries)
       THEN UNCHANGED <<pc, raised>>
       ELSE pc' = "request_raised" /\ raised' = "LLMClientError"
    /\ UNCHANGED <<core_vars, except_request, max_retries, response>>

\* except requests.exceptions.RequestException: retry, or leave the handler
PostRequestException ==
    /\ pc = "request"
    /\ range_has(Len(attempts), max_retries)
    /\ attempts' = Append(attempts, "request")
    /\ last_error' = "request"
    /\ UNCHANGED <<core_vars, except_request, pc, raised, max_retries, response>>

\* except Exception: the LLMClientError raised for a response without
\* choices or content, or any other error; raised again at once
PostUnexpected ==
    /\ pc = "request"
    /\ range_has(Len(attempts), max_retries)
    /\ attempts' = Append(attempts, "unexpected")
    /\ last_error' = "unexpected"
    /\ pc' = "request_raised"
    /\ raised' = "LLMClientError"
    /\ UNCHANGED <<core_vars, except_request, max_retries, response>>

\* the loop is over: raise LLMClientError
RetriesExhausted ==
    /\ pc = "request"
    /\ ~range_has(Len(attempts), max_retries)
    /\ pc' = "request_raised"
    /\ raised' = "LLMClientError"
    /\ UNCHANGED <<core_vars, except_request, request_vars>>

NextRequest ==
    \/ PostReturnsContent
    \/ PostTimeout
    \/ PostConnectionError
    \/ PostHTTPError
    \/ PostRequestException
    \/ PostUnexpected
    \/ RetriesExhausted

SpecRequest == InitRequest /\ [][NextRequest]_vars

\* C17: a request makes at most max_retries attempts; every attempt before
\* the last one failed in a way that is retried; it returns exactly when
\* the last attempt succeeded, with that attempt's non-empty content; it
\* gives up on a timeout, connection error or HTTP error only when no
\* attempt remains; and it ends by raising one LLMClientError otherwise.
C17_RetryBudget ==
    /\ Len(attempts) <= max_retries
    /\ \A k \in 1..(Len(attempts) - 1) : attempts[k] \in RetriedOutcomes
    /\ (pc = "request_returned") <=>
           (attempts # <<>> /\ attempts[Len(attempts)] = "ok")
    /\ (pc = "request_returned") <=> (response # "")
    /\ pc = "request_returned" => raised = "none"
    /\ pc = "request_raised" =>
           /\ raised = "LLMClientError"
           /\ response = ""
           /\ (attempts = <<>> \/ attempts[Len(attempts)] \in RetriedOutcomes)
                  => Len(attempts) = max_retries
    /\ pc = "request" =>
           /\ raised = "none"
           /\ \A k \in DOMAIN attempts : attempts[k] \in RetriedOutcomes

\* two connection errors, then a success, with max_retries = 3
C17_Witness ==
    /\ pc = "request_returned"
    /\ max_retries = 3
    /\ attempts = <<"connection", "connection", "ok">>
    /\ response \in Reports

\* every attempt failed: max_retries = 3, three connection errors
C17_WitnessExhausted ==
    /\ pc = "request_raised"
    /\ max_retries = 3
    /\ attempts = <<"connection", "connection", "connection">>

----------------------------------------------------------------------------
(* SpecStore: the capture process saving records while the clock runs.     *)

StoreOcrTexts == {<<>>, <<"x">>}

InitStore ==
    /\ pc = "store"
    /\ now = 0
    /\ store \in [Days -> {<<>>, EarlierLines}]
    /\ saved = <<>>
    /\ raised = "none"
    /\ IdleRequest /\ IdleFile /\ IdleFormat /\ IdlePreprocess /\ IdleLate
    /\ IdleSessions /\ IdleGroups /\ IdleChunks
    /\ i = 0 /\ report_chunks = <<>> /\ calls = <<>>
    /\ combined_report = <<>> /\ report_file = <<>>

\* save_log returns: one line is added to the file of today
SaveLog ==
    /\ pc = "store"
    /\ Len(saved) < MaxSaves
    /\ \E ocr_text \in StoreOcrTexts :
          LET json_line == json_line_of(log_entry_of(now, <<"a">>, <<>>, ocr_text))
              today == today_of(now)
          IN  /\ store' = [store EXCEPT ![today] = write_appending(@, json_line)]
              /\ saved' = Append(saved, [day |-> today, line |-> json_line])
    /\ UNCHANGED <<core_vars, except_store, pc, raised, now>>

\* save_log raises: the directory cannot be made or the file not be opened
SaveLogRaises ==
    /\ pc = "store"
    /\ raised' = "OSError"
    /\ UNCHANGED <<core_vars, except_store, pc, store_vars>>

\* time passes
Tick ==
    /\ pc = "store"
    /\ now < MaxNow
    /\ now' = now + 1
    /\ UNCHANGED <<core_vars, except_store, pc, raised, store, saved>>

NextStore == SaveLog \/ SaveLogRaises \/ Tick

SpecStore == InitStore /\ [][NextStore]_vars

\* the lines the returned calls wrote to the file of a day, in call order
RECURSIVE SavedOn(_, _)
SavedOn(day, calls_) ==
    IF calls_ = <<>> THEN <<>>
    ELSE (IF Head(calls_).day = day THEN <<Head(calls_).line>> ELSE <<>>)
             \o SavedOn(day, Tail(calls_))

\* C18: a save_log call that returns adds exactly one line at the end of the
\* file of its day and changes nothing else; a step without such a call
\* changes no file; so the lines at the end of a day's file are the records
\* of the calls that returned on that day, in call order.
C18_AppendOnly ==
    /\ [][/\ saved' # saved =>
                \E call \in {saved'[Len(saved')]} :
                    /\ saved' = Append(saved, call)
                    /\ store'[call.day] = Append(store[call.day], call.line)
                    /\ \A d \in Days \ {call.day} : store'[d] = store[d]
          /\ saved' = saved => store' = store]_vars
    /\ [](pc = "store" =>
            \A d \in Days :
                LET mine == SavedOn(d, saved)
                IN  /\ Len(store[d]) >= Len(mine)
                    /\ SubSeq(store[d], Len(store[d]) - Len(mine) + 1, Len(store[d])) = mine)

\* three calls returned, two of them on one day whose file held a line
\* of an earlier run
C18_Witness ==
    /\ pc = "store"
    /\ Len(saved) = 3
    /\ saved[1].day = saved[2].day
    /\ saved[3].day # saved[1].day
    /\ saved[1].line # saved[2].line
    /\ Len(store[saved[1].day]) = 3

----------------------------------------------------------------------------
(* Equal timestamps, under SpecSessions *)

Instants == {InstantOf(r) : r \in SessionRecords}

\* the records of one instant, in the order the sequence has them
AtInstant(s, t) ==
    LET IsAt(r) == InstantOf(r) = t
    IN  SelectSeq(s, IsAt)

\* the records of an instant lie in one session, next to each other, in
\* the order the input has them
TogetherInInputOrder(t) ==
    /\ AtInstant(FlatSessions, t) = AtInstant(logs, t)
    /\ \A j, k \in DOMAIN FlatSessions :
          (j < k /\ InstantOf(FlatSessions[j]) = t /\ InstantOf(FlatSessions[k]) = t)
              => /\ SessionOf(j) = SessionOf(k)
                 /\ \A m \in j..k : InstantOf(FlatSessions[m]) = t

\* C20 as stated: for every gap_minutes the function takes, records of one
\* instant are in one session, adjacent, in input order.
C20_EqualTimestampsNeverSplit ==
    pc = "sessions_return" => \A t \in Instants : TogetherInInputOrder(t)

\* C20: for every gap_minutes of at least one minute, records of one instant
\* are in one session, adjacent, in their relative input order.
C20_EqualTimestampsTogetherForPositiveGap ==
    (pc = "sessions_return" /\ gap_minutes >= 1)
        => \A t \in Instants : TogetherInInputOrder(t)

\* two different records of one instant, given after a later record, with
\* a threshold of one minute
C20_Witness ==
    /\ pc = "sessions_return"
    /\ gap_minutes = 1
    /\ Len(logs) = 3
    /\ InstantOf(logs[2]) = InstantOf(logs[3])
    /\ logs[2] # logs[3]
    /\ InstantOf(logs[1]) > InstantOf(logs[2])
    /\ FlatSessions[1] = logs[2] /\ FlatSessions[2] = logs[3]
    /\ SessionOf(1) = SessionOf(2)

----------------------------------------------------------------------------
(* SpecLoad: load_logs_by_date followed by split_into_sessions.            *)

InitLoad ==
    /\ pc = "load_call"
    /\ log_file \in LogFiles
    /\ gap_minutes \in -1..MaxGap
    /\ logs = <<>> /\ sessions = <<>>
    /\ raised = "none"
    /\ IdleRequest /\ IdleStore /\ IdleFormat /\ IdlePreprocess /\ IdleLate
    /\ IdleGroups /\ IdleChunks /\ IdleReport

\* both calls return
LoadAndSplit ==
    /\ pc = "load_call"
    /\ LET loaded == load_logs_by_date(log_file)
           outcome == split_into_sessions_outcome(loaded, gap_minutes, now)
       IN  /\ outcome.raises = "none"
           /\ logs' = loaded
           /\ sessions' = outcome.sessions
    /\ pc' = "load_returned"
    /\ UNCHANGED <<except_file, log_file, gap_minutes, grouped, text, max_chars,
                   chunks, i, report_chunks, calls, combined_report, report_file,
                   raised>>

\* split_into_sessions raises
LoadAndSplitRaises ==
    /\ pc = "load_call"
    /\ LET loaded == load_logs_by_date(log_file)
           outcome == split_into_sessions_outcome(loaded, gap_minutes, now)
       IN  /\ outcome.raises # "none"
           /\ logs' = loaded
           /\ raised' = outcome.raises
    /\ pc' = "load_raised"
    /\ UNCHANGED <<except_file, log_file, gap_minutes, sessions, grouped, text,
                   max_chars, chunks, i, report_chunks, calls, combined_report,
                   report_file>>

NextLoad == LoadAndSplit \/ LoadAndSplitRaises

SpecLoad == InitLoad /\ [][NextLoad]_vars

\* C14: whatever malformed lines and unparsable timestamps the file holds
\* next to well-formed records, load_logs_by_date followed by
\* split_into_sessions does not raise and returns every record of the file.
C14_InputErrorsNeverFatal ==
    /\ pc # "load_raised"
    /\ pc = "load_returned" =>
          /\ logs = LoadScan(log_file.lines)
          /\ BagOf(FlatSessions) = BagOf(logs)

----------------------------------------------------------------------------
(* SpecFormat: group_by_app_and_window and then format_logs_for_llm, over  *)
(* records whose app name, window title and OCR text may hold a URL.       *)

Url == Http \o <<"u">>

FormatOcrTexts == {<<>>, <<"x">>, Url \o <<" ", "y">>}

FormatRecords == [timestamp : {[local |-> 0, offset |-> 0], [local |-> 1, offset |-> 0]},
                  app_name : {<<"a">>, Url}, window_title : {<<>>, Url},
                  ocr_text : FormatOcrTexts]

InitFormat ==
    /\ pc = "format_group"
    /\ logs \in SeqsUpTo(FormatRecords, MaxFormatEntries)
    /\ mask_sensitive \in BOOLEAN
    /\ grouped = <<>> /\ text = <<>>
    /\ gap_minutes = 0 /\ sessions = <<>>
    /\ max_chars = 0 /\ chunks = <<>>
    /\ raised = "none"
    /\ IdleRequest /\ IdleStore /\ IdleFile /\ IdlePreprocess /\ IdleLate
    /\ IdleReport

GroupForFormat ==
    /\ pc = "format_group"
    /\ grouped' = group_by_app_and_window(logs)
    /\ pc' = "format_call"
    /\ UNCHANGED <<except_format, mask_sensitive, logs, gap_minutes, sessions, text,
                   max_chars, chunks, i, report_chunks, calls, combined_report,
                   report_file, raised>>

FormatLogsForLlm ==
    /\ pc = "format_call"
    /\ text' = format_logs_for_llm(grouped, mask_sensitive)
    /\ pc' = "format_return"
    /\ UNCHANGED <<except_format, mask_sensitive, logs, gap_minutes, sessions,
                   grouped, max_chars, chunks, i, report_chunks, calls,
                   combined_report, report_file, raised>>

NextFormat == GroupForFormat \/ FormatLogsForLlm

SpecFormat == InitFormat /\ [][NextFormat]_vars

\* the OCR texts of a group that are not empty, as the text has to show them
ShownOcr(group) ==
    LET Shown(entry) == entry.ocr_text # <<>>
        kept == SelectSeq(group.entries, Shown)
    IN  [k \in DOMAIN kept |->
            IF mask_sensitive THEN mask_sensitive_info(kept[k].ocr_text)
            ELSE kept[k].ocr_text]

\* the block of lines of a group: the header lines with the app name, the
\* window title and the two timestamps as they are, then the OCR texts
BlockOf(group) ==
    <<AppLine(group.app_name)>>
        \o (IF group.window_title = <<>> THEN <<>> ELSE <<WindowLine(group.window_title)>>)
        \o <<TimeLine(group.start_time, group.end_time),
             CountLine(group.entries, group.total_chars), <<>>>>
        \o ShownOcr(group)
        \o <<<<>>, RuleLine, <<>>>>

\* C19: the text is, group after group, the header lines holding the app
\* name, the window title and the time range unmasked, then every non-empty
\* OCR text, masked exactly when mask_sensitive is set.
C19_MaskOnlyOcrText ==
    pc = "format_return" =>
        split(text) = (IF grouped = <<>> THEN <<<<>>>>
                       ELSE Flatten([g \in DOMAIN grouped |-> BlockOf(grouped[g])]))

\* masking is on; a group whose app name and window title are a URL and
\* whose OCR text holds a URL: the header lines show the URL, the body the mark
C19_Witness ==
    /\ pc = "format_return"
    /\ mask_sensitive
    /\ Len(grouped) = 1
    /\ grouped[1].app_name = Url /\ grouped[1].window_title = Url
    /\ Len(grouped[1].entries) = 2
    /\ grouped[1].entries[2].ocr_text = Url \o <<" ", "y">>
    /\ AppLine(Url) \in Range(split(text))
    /\ WindowLine(Url) \in Range(split(text))
    /\ UrlMark \o <<" ", "y">> \in Range(split(text))
    /\ Url \o <<" ", "y">> \notin Range(split(text))

\* masking is off and an OCR text holding a URL is shown as it is
C19_WitnessUnmasked ==
    /\ pc = "format_return"
    /\ ~mask_sensitive
    /\ Url \o <<" ", "y">> \in Range(split(text))

----------------------------------------------------------------------------
(* SpecPreprocess: preprocess_logs over the log file of a day.  The        *)
(* records lie whole minutes apart, so a threshold of one minute splits    *)
(* between any two instants and one of two minutes between none.           *)

PreTimestamps ==
    [iso : {TRUE}, local : {0, TicksPerMinute, 2 * TicksPerMinute}, offset : {0}]
        \cup {[iso |-> FALSE, local |-> 0, offset |-> 0]}

PreRecords ==
    {r \in [timestamp : PreTimestamps, app_name : {<<"a">>, <<"b">>},
            window_title : {<<>>}, ocr_text : {<<"x">>}] :
        r.timestamp.iso \/ r.app_name = <<"a">>}

PreLines ==
    [json : {"record"}, entry : PreRecords]
        \cup [json : {"malformed", "blank"}, entry : {NoEntry}]

PreFiles ==
    {[exists |-> FALSE, lines |-> <<>>]}
        \cup [exists : {TRUE}, lines : SeqsUpTo(PreLines, MaxLines)]

\* the budgets: below the text of a session, just its text of one record,
\* and above every text
ChunkCharsChoices == {20, 44, 500}

InitPreprocess ==
    /\ pc = "preprocess_call"
    /\ log_file \in PreFiles
    /\ gap_minutes \in 1..2
    /\ chunk_chars \in ChunkCharsChoices
    /\ mask_sensitive = FALSE
    /\ logs = <<>> /\ sessions = <<>>
    /\ session_groups = <<>> /\ session_chunks = <<>>
    /\ chunks = <<>>
    /\ raised = "none"
    /\ IdleRequest /\ IdleStore /\ IdleLate
    /\ IdleGroups /\ text = <<>> /\ max_chars = 0 /\ IdleReport

\* preprocess_logs returns
PreprocessLogFile ==
    /\ pc = "preprocess_call"
    /\ LET out == preprocess_logs(log_file, gap_minutes, chunk_chars, mask_sensitive, now)
       IN  /\ out.raises = "none"
           /\ logs' = out.logs
           /\ sessions' = out.sessions
           /\ session_groups' = out.session_groups
           /\ session_chunks' = out.session_chunks
           /\ chunks' = out.chunks
    /\ pc' = "preprocess_return"
    /\ UNCHANGED <<except_preprocess, log_file, mask_sensitive, chunk_chars,
                   gap_minutes, grouped, text, max_chars, i, report_chunks, calls,
                   combined_report, report_file, raised>>

\* preprocess_logs raises what split_into_sessions raises
PreprocessLogFileRaises ==
    /\ pc = "preprocess_call"
    /\ LET out == preprocess_logs(log_file, gap_minutes, chunk_chars, mask_sensitive, now)
       IN  /\ out.raises # "none"
           /\ logs' = out.logs
           /\ raised' = out.raises
    /\ pc' = "preprocess_raised"
    /\ UNCHANGED <<except_preprocess, log_file, mask_sensitive, preprocess_vars,
                   gap_minutes, sessions, grouped, text, max_chars, chunks, i,
                   report_chunks, calls, combined_report, report_file>>

NextPreprocess == PreprocessLogFile \/ PreprocessLogFileRaises

SpecPreprocess == InitPreprocess /\ [][NextPreprocess]_vars

SessionMark == <<"[", "S", "e", "s", "s", "n", " ">>

\* C15: with more than one session every chunk of session i begins with the
\* header i/N, with one session no chunk has a header, and every chunk,
\* header included, has at most chunk_chars characters unless one of its
\* lines alone has more.
C15_HeaderWithinBudget ==
    pc = "preprocess_return" =>
        \A n \in DOMAIN session_chunks : \A c \in DOMAIN session_chunks[n] :
            LET chunk == session_chunks[n][c]
            IN  /\ Len(sessions) > 1 =>
                       StartsWith(chunk, session_header(n - 1, Len(sessions)))
                /\ Len(sessions) = 1 => ~StartsWith(chunk, SessionMark)
                /\ \/ Len(chunk) <= chunk_chars
                   \/ \E k \in DOMAIN split(chunk) : Len(split(chunk)[k]) > chunk_chars

PairOf(r) == <<r.app_name, r.window_title>>

GroupsOf(n, pair) ==
    {g \in DOMAIN session_groups[n] : PairOf(session_groups[n][g]) = pair}

\* C16: the groups of a session hold the records of that session and no
\* other, one group for every pair of the session, so a pair of two sessions
\* has a group in each; the group's header line is in a chunk of its
\* session; and the chunks are those of the first session, then those of
\* the second, and so on.
C16_NoGroupAcrossSessions ==
    pc = "preprocess_return" =>
        /\ Len(session_groups) = Len(sessions)
        /\ Len(session_chunks) = Len(sessions)
        /\ \A n \in DOMAIN sessions :
              /\ BagOf(Flatten([g \in DOMAIN session_groups[n] |->
                                   session_groups[n][g].entries]))
                     = BagOf(sessions[n])
              /\ \A k \in DOMAIN sessions[n] :
                    Cardinality(GroupsOf(n, PairOf(sessions[n][k]))) = 1
              /\ \A g \in DOMAIN session_groups[n] :
                    \E c \in DOMAIN session_chunks[n] :
                        AppLine(session_groups[n][g].app_name)
                            \in Range(split(session_chunks[n][c]))
        /\ chunks = Flatten(session_chunks)
        /\ \A c, d \in DOMAIN chunks : \A m, n \in DOMAIN sessions :
              (/\ c < d
               /\ Len(sessions) > 1
               /\ StartsWith(chunks[c], session_header(m - 1, Len(sessions)))
               /\ StartsWith(chunks[d], session_header(n - 1, Len(sessions))))
                  => m <= n

\* two sessions that both hold a record of app "a", the first one a record
\* of app "b" too; the first session is cut in several chunks
C16_Witness ==
    /\ pc = "preprocess_return"
    /\ Len(sessions) = 2
    /\ Len(sessions[1]) = 2
    /\ \E k \in DOMAIN sessions[1] : sessions[1][k].app_name = <<"a">>
    /\ \E k \in DOMAIN sessions[1] : sessions[1][k].app_name = <<"b">>
    /\ sessions[2][1].app_name = <<"a">>
    /\ Len(session_groups[1]) = 2 /\ Len(session_groups[2]) = 1
    /\ Len(session_chunks[1]) >= 2
    /\ Len(chunks) = Len(session_chunks[1]) + Len(session_chunks[2])

----------------------------------------------------------------------------
(* SpecDay: generate_report_for_date from the log file of the day on.      *)

DayRecords ==
    {r \in PreRecords : r.app_name = <<"a">> /\ r.timestamp.local <= TicksPerMinute}

DayLines ==
    [json : {"record"}, entry : DayRecords]
        \cup [json : {"malformed", "blank"}, entry : {NoEntry}]

DayFiles ==
    {[exists |-> FALSE, lines |-> <<>>]}
        \cup [exists : {TRUE}, lines : SeqsUpTo(DayLines, MaxLines)]

not_chunks_never(cs) == FALSE

\* `not chunks`
not_chunks(cs) == cs = <<>>

InitDay ==
    /\ pc = "day_preprocess"
    /\ log_file \in DayFiles
    /\ gap_minutes = 1
    /\ chunk_chars = 500
    /\ mask_sensitive = FALSE
    /\ logs = <<>> /\ sessions = <<>>
    /\ session_groups = <<>> /\ session_chunks = <<>>
    /\ chunks = <<>>
    /\ i = 0 /\ report_chunks = <<>> /\ calls = <<>>
    /\ combined_report = <<>>
    /\ report_file \in {NoFile, OldReport}
    /\ raised = "none"
    /\ IdleRequest /\ IdleStore /\ IdleLate
    /\ IdleGroups /\ text = <<>> /\ max_chars = 0

\* step 1: preprocess_logs returns; no chunks is the ValueError
PreprocessDay ==
    /\ pc = "day_preprocess"
    /\ LET out == preprocess_logs(log_file, gap_minutes, chunk_chars, mask_sensitive, now)
       IN  /\ out.raises = "none"
           /\ logs' = out.logs
           /\ sessions' = out.sessions
           /\ session_groups' = out.session_groups
           /\ session_chunks' = out.session_chunks
           /\ chunks' = out.chunks
           /\ IF not_chunks(out.chunks)
              THEN pc' = "raised" /\ raised' = "ValueError"
              ELSE pc' = "loop" /\ raised' = raised
    /\ UNCHANGED <<except_preprocess, log_file, mask_sensitive, chunk_chars,
                   gap_minutes, grouped, text, max_chars, i, report_chunks, calls,
                   combined_report, report_file>>

\* step 1: preprocess_logs raises and the error is raised again
PreprocessDayRaises ==
    /\ pc = "day_preprocess"
    /\ LET out == preprocess_logs(log_file, gap_minutes, chunk_chars, mask_sensitive, now)
       IN  /\ out.raises # "none"
           /\ logs' = out.logs
           /\ raised' = out.raises
    /\ pc' = "raised"
    /\ UNCHANGED <<except_preprocess, log_file, mask_sensitive, preprocess_vars,
                   gap_minutes, sessions, grouped, text, max_chars, chunks, i,
                   report_chunks, calls, combined_report, report_file>>

NextDay ==
    \/ PreprocessDay
    \/ PreprocessDayRaises
    \/ GenerateReportReturns
    \/ GenerateReportRaises
    \/ CombineReports
    \/ SaveReport
    \/ SaveReportRaises

SpecDay == InitDay /\ [][NextDay]_vars

\* the file is missing or no line of it is a record
NoValidRecord ==
    ~log_file.exists \/ \A k \in DOMAIN log_file.lines : log_file.lines[k].json # "record"

C13_WitnessMissing ==
    /\ pc = "raised"
    /\ raised = "ValueError"
    /\ ~log_file.exists

----------------------------------------------------------------------------
(* The order of the result, under SpecSessions *)

\* C21: the sessions laid end to end are the input in stable order of the
\* parsed timestamps: the instants never decrease, within a session or from
\* one session to the next, every input record is there, and the records
\* of one instant keep the order the input gave them.
C21_SessionsAreStableSort ==
    pc = "sessions_return" =>
        /\ Len(FlatSessions) = Len(logs)
        /\ \A j, k \in DOMAIN FlatSessions :
              j < k => InstantOf(FlatSessions[j]) <= InstantOf(FlatSessions[k])
        /\ \A n \in DOMAIN sessions : TimeOrdered(sessions[n])
        /\ \A t \in Instants : AtInstant(FlatSessions, t) = AtInstant(logs, t)

\* three records given latest first, returned earliest first
C21_Witness ==
    /\ pc = "sessions_return"
    /\ Len(logs) = 3
    /\ InstantOf(logs[1]) > InstantOf(logs[2])
    /\ InstantOf(logs[2]) > InstantOf(logs[3])
    /\ FlatSessions = <<logs[3], logs[2], logs[1]>>
    /\ Len(sessions) >= 2

----------------------------------------------------------------------------
(* The fields of a group, under SpecGroups *)

RECURSIVE SumOcrText(_)
SumOcrText(entries) ==
    IF entries = <<>> THEN 0
    ELSE Len(Head(entries).ocr_text) + SumOcrText(Tail(entries))

\* C22: in every group start_time is the least and end_time the greatest
\* timestamp string of the members, by string comparison, and total_chars
\* is the sum of the lengths of the members' OCR texts.
C22_GroupFields ==
    pc = "groups_return" =>
        \A g \in DOMAIN grouped :
            LET group == grouped[g]
                stamps == {group.entries[k].timestamp : k \in DOMAIN group.entries}
            IN  /\ group.start_time \in stamps
                /\ group.end_time \in stamps
                /\ \A t \in stamps : ~str_less(t, group.start_time)
                /\ \A t \in stamps : ~str_less(group.end_time, t)
                /\ group.total_chars = SumOcrText(group.entries)

\* a group of three members whose first is neither the earliest nor the
\* latest by string, with OCR texts of two lengths
C22_Witness ==
    /\ pc = "groups_return"
    /\ Len(grouped) = 1
    /\ Len(grouped[1].entries) = 3
    /\ grouped[1].entries[1].timestamp = [local |-> 1, offset |-> 0]
    /\ grouped[1].start_time = [local |-> 0, offset |-> 0]
    /\ grouped[1].end_time = [local |-> 1, offset |-> 1]
    /\ grouped[1].total_chars = 4

\* the place in the input of the record a group was opened for
FirstSeen(group) == CHOOSE k \in DOMAIN logs :
    /\ logs[k] \in Range(group.entries)
    /\ \A j \in 1..(k - 1) : logs[j] \notin Range(group.entries)

\* the input records that are members of a group, in input order
MembersInInput(group) ==
    LET IsMember(r) == r \in Range(group.entries)
    IN  SelectSeq(logs, IsMember)

\* C23: the groups come in ascending order of start_time by string
\* comparison, groups of one start_time in the order their first records
\* have in the input, and the members of a group in input order.
C23_GroupOrder ==
    pc = "groups_return" =>
        /\ \A g, h \in DOMAIN grouped :
              g < h =>
                  /\ ~str_less(grouped[h].start_time, grouped[g].start_time)
                  /\ grouped[g].start_time = grouped[h].start_time
                         => FirstSeen(grouped[g]) < FirstSeen(grouped[h])
        /\ \A g \in DOMAIN grouped : grouped[g].entries = MembersInInput(grouped[g])

\* three groups: the one seen first starts latest and comes last, the other
\* two start together and keep the order they were seen in
C23_Witness ==
    /\ pc = "groups_return"
    /\ Len(logs) = 3 /\ Len(grouped) = 3
    /\ grouped[3].entries = <<logs[1]>>
    /\ grouped[1].entries = <<logs[2]>>
    /\ grouped[2].entries = <<logs[3]>>
    /\ grouped[1].start_time = grouped[2].start_time
    /\ str_less(grouped[2].start_time, grouped[3].start_time)

----------------------------------------------------------------------------
(* How full the chunks are, under SpecChunks *)

\* a chunk and the first line of the next one, joined by a newline
BlockLength(c) == Len(chunks[c]) + 1 + Len(ChunkLines[c + 1][1])

----------------------------------------------------------------------------
(* main: the auto-pause state machine                                      *)

\* resume_block_until = None
NoDeadline == -1

\* the attributes of cfg.capture that the pause functions read
CaptureConfigs ==
    [auto_pause : BOOLEAN, pause_on_lock : BOOLEAN, pause_on_display_sleep : BOOLEAN,
     resume_grace_sec : 0..MaxGrace]

\* _get_auto_pause_reasons: the reasons that hold, in the order they are tested
get_auto_pause_reasons(capture, locked, asleep) ==
    (IF capture.pause_on_lock /\ locked THEN <<"screen_locked">> ELSE <<>>)
        \o (IF capture.pause_on_display_sleep /\ asleep THEN <<"display_asleep">> ELSE <<>>)

\* the label of a reason (Latin letters stand for the labels' characters)
reason_label(reason) ==
    IF reason = "screen_locked" THEN <<"L", "o", "c", "k", "e", "d">>
    ELSE IF reason = "display_asleep"
         THEN <<"D", "i", "s", "p", "l", "a", "y", "S", "l", "e", "p">>
         ELSE <<reason>>

\* " / ".join(labels)
RECURSIVE join_reasons(_)
join_reasons(labels) ==
    IF labels = <<>> THEN <<>>
    ELSE IF Len(labels) = 1 THEN labels[1]
         ELSE labels[1] \o <<" ", "/", " ">> \o join_reasons(Tail(labels))

format_auto_pause_reason(reasons) ==
    join_reasons([k \in DOMAIN reasons |-> reason_label(reasons[k])])

should_pause_always(reasons) == TRUE

\* should_pause = bool(reasons)
should_pause(reasons) == reasons # <<>>

\* update_auto_pause_state: the three globals after the call, given the globals
\* before it, the observations of the screen and the time
update_auto_pause_state(before, capture, locked, asleep, t) ==
    IF ~capture.auto_pause
    THEN IF before.auto_paused
         THEN [auto_paused |-> FALSE, auto_pause_reason |-> <<>>,
               resume_block_until |-> NoDeadline]
         ELSE before
    ELSE LET reasons == get_auto_pause_reasons(capture, locked, asleep)
         IN  IF should_pause(reasons) /\ ~before.auto_paused
             THEN [auto_paused |-> TRUE,
                   auto_pause_reason |-> format_auto_pause_reason(reasons),
                   resume_block_until |-> NoDeadline]
             ELSE IF ~should_pause(reasons) /\ before.auto_paused
                  THEN [auto_paused |-> FALSE, auto_pause_reason |-> <<>>,
                        resume_block_until |->
                            IF capture.resume_grace_sec > 0
                            THEN t + capture.resume_grace_sec
                            ELSE NoDeadline]
                  ELSE before

\* is_resume_waiting: its result and resume_block_until after the call
is_resume_waiting(deadline, t) ==
    IF deadline = NoDeadline THEN [waiting |-> FALSE, resume_block_until |-> NoDeadline]
    ELSE IF t >= deadline THEN [waiting |-> FALSE, resume_block_until |-> NoDeadline]
         ELSE [waiting |-> TRUE, resume_block_until |-> deadline]

PauseGlobals ==
    [auto_paused |-> auto_paused, auto_pause_reason |-> auto_pause_reason,
     resume_block_until |-> resume_block_until]

InitAutoPause ==
    /\ pc = "auto_pause"
    /\ cfg \in CaptureConfigs
    /\ manual_paused = FALSE /\ auto_paused = FALSE
    /\ resume_block_until = NoDeadline /\ auto_pause_reason = <<>>
    /\ time_now = 0
    /\ raised = "none"
    /\ IdleEarlier /\ IdleStore /\ IdleCapture /\ IdleMenu
    /\ IdleSessions /\ IdleGroups /\ IdleChunks /\ IdleReport

\* one call of update_auto_pause_state(cfg)
UpdateAutoPauseState ==
    /\ pc = "auto_pause"
    /\ \E locked \in BOOLEAN, asleep \in BOOLEAN :
           LET after == update_auto_pause_state(PauseGlobals, cfg, locked, asleep, time_now)
           IN  /\ auto_paused' = after.auto_paused
               /\ auto_pause_reason' = after.auto_pause_reason
               /\ resume_block_until' = after.resume_block_until
    /\ UNCHANGED <<pc, core_vars, raised, earlier_vars, store_vars, capture_vars,
                   menu_vars, cfg,
                   manual_paused,
                   time_now>>

\* one call of is_resume_waiting()
IsResumeWaiting ==
    /\ pc = "auto_pause"
    /\ resume_block_until' = is_resume_waiting(resume_block_until, time_now).resume_block_until
    /\ UNCHANGED <<pc, core_vars, raised, earlier_vars, store_vars, capture_vars,
                   menu_vars, cfg,
                   manual_paused,
                   auto_paused, auto_pause_reason, time_now>>

\* time passes between two calls
ClockAdvances ==
    /\ pc = "auto_pause"
    /\ time_now < MaxClock
    /\ time_now' = time_now + 1
    /\ UNCHANGED <<pc, core_vars, raised, earlier_vars, store_vars, capture_vars,
                   menu_vars, cfg,
                   manual_paused,
                   auto_paused, auto_pause_reason, resume_block_until>>

NextAutoPause == UpdateAutoPauseState \/ IsResumeWaiting \/ ClockAdvances

SpecAutoPause == InitAutoPause /\ [][NextAutoPause]_vars

\* C26: in every state of the auto-pause state machine auto_paused implies that
\* resume_block_until is unset and auto_pause_reason is non-empty exactly when
\* auto_paused is true; and a step sets a resume deadline only if it ends an
\* auto-pause while resume_grace_sec > 0.
C26_AutoPauseStateMachine ==
    /\ [](/\ auto_paused => resume_block_until = NoDeadline
          /\ (auto_pause_reason # <<>>) <=> auto_paused)
    /\ [][(resume_block_until' # NoDeadline /\ resume_block_until' # resume_block_until)
              => (auto_paused /\ ~auto_paused' /\ cfg.resume_grace_sec > 0)]_vars

\* an auto-pause has ended and its resume grace is pending
C26_Witness ==
    /\ pc = "auto_pause"
    /\ ~auto_paused /\ auto_pause_reason = <<>>
    /\ resume_block_until = time_now + cfg.resume_grace_sec
    /\ resume_block_until > time_now

\* an auto-pause is active for both reasons
C26_WitnessPaused ==
    /\ pc = "auto_pause"
    /\ auto_paused
    /\ auto_pause_reason = reason_label("screen_locked") \o <<" ", "/", " ">>
                               \o reason_label("display_asleep")

----------------------------------------------------------------------------
(* filter: the exclusions, the noise removal and the duplicate check       *)

\* the attributes of cfg.filter; one excluded app, one title keyword, one
\* exclusion pattern and one noise pattern, each a literal
FilterConfig ==
    [allow_apps |-> <<>>, exclude_apps |-> << <<"x">> >>,
     exclude_title_keywords |-> << <<"k">> >>, exclude_patterns |-> << <<"s">> >>,
     ui_noise_patterns |-> << <<"n">> >>, similarity_threshold |-> 90]

\* keyword in text, and pattern.search(text) for a literal pattern
Contains(t, part) == \E p \in 0..Len(t) : StartsWith(Drop(t, p), part)

InList(x, list) == \E k \in DOMAIN list : list[k] = x

\* should_exclude_pre_capture: whether the window is excluded
should_exclude_pre_capture(window_info, filter) ==
    IF /\ filter.allow_apps # <<>>
       /\ (window_info.app_name = <<>> \/ ~InList(window_info.app_name, filter.allow_apps))
    THEN TRUE
    ELSE IF window_info.app_name # <<>> /\ InList(window_info.app_name, filter.exclude_apps)
         THEN TRUE
         ELSE /\ window_info.window_title # <<>>
              /\ \E k \in DOMAIN filter.exclude_title_keywords :
                     Contains(window_info.window_title, filter.exclude_title_keywords[k])

\* should_exclude_post_capture: whether a pattern is found in the OCR text
should_exclude_post_capture(t, filter) ==
    IF t = <<>> \/ filter.exclude_patterns = <<>> THEN FALSE
    ELSE \E k \in DOMAIN filter.exclude_patterns : Contains(t, filter.exclude_patterns[k])

\* line.strip()
RECURSIVE strip(_)
strip(line) ==
    IF line = <<>> THEN <<>>
    ELSE IF Head(line) \in Whitespace THEN strip(Tail(line))
         ELSE IF line[Len(line)] \in Whitespace THEN strip(SubSeq(line, 1, Len(line) - 1))
              ELSE line

\* the loop of remove_ui_noise: blank lines and lines a pattern matches at
\* their start are dropped, the others are kept stripped
RECURSIVE NoiseScan(_, _)
NoiseScan(lines, patterns) ==
    IF lines = <<>> THEN <<>>
    ELSE LET stripped == strip(Head(lines))
         IN  (IF \/ stripped = <<>>
                 \/ \E k \in DOMAIN patterns : StartsWith(stripped, patterns[k])
              THEN <<>> ELSE <<stripped>>)
                 \o NoiseScan(Tail(lines), patterns)

remove_ui_noise(t, filter) ==
    IF t = <<>> \/ filter.ui_noise_patterns = <<>> THEN t
    ELSE join(NoiseScan(split(t), filter.ui_noise_patterns))

\* the total size of the matching blocks SequenceMatcher finds: the longest
\* common block, earliest in a and then in b, and the same to its left and right
RECURSIVE matching_size(_, _)
matching_size(a, b) ==
    LET blocks == {x \in (DOMAIN a) \X (DOMAIN b) \X (1..Len(a)) :
                      /\ x[1] + x[3] - 1 <= Len(a)
                      /\ x[2] + x[3] - 1 <= Len(b)
                      /\ SubSeq(a, x[1], x[1] + x[3] - 1) = SubSeq(b, x[2], x[2] + x[3] - 1)}
    IN  IF blocks = {} THEN 0
        ELSE LET best == CHOOSE x \in blocks : \A y \in blocks :
                             \/ y[3] < x[3]
                             \/ y[3] = x[3] /\ x[1] < y[1]
                             \/ y[3] = x[3] /\ x[1] = y[1] /\ x[2] <= y[2]
             IN  best[3]
                     + matching_size(SubSeq(a, 1, best[1] - 1), SubSeq(b, 1, best[2] - 1))
                     + matching_size(SubSeq(a, best[1] + best[3], Len(a)),
                                     SubSeq(b, best[2] + best[3], Len(b)))

\* calculate_similarity, in percent (thresholds are whole percents)
calculate_similarity(text1, text2) ==
    IF text1 = <<>> \/ text2 = <<>> THEN 0
    ELSE (200 * matching_size(text1, text2)) \div (Len(text1) + Len(text2))

\* _last_ocr_text = None, _last_app_name = None
Unset == <<"None">>

\* is_duplicate: its verdict and the two globals after the call
is_duplicate(t, app_name, last_text, last_app, filter) ==
    IF /\ last_text # Unset /\ last_text # <<>>
       /\ last_app = app_name
       /\ calculate_similarity(t, last_text) >= filter.similarity_threshold
    THEN [is_dup |-> TRUE, last_ocr_text |-> last_text, last_app_name |-> last_app]
    ELSE [is_dup |-> FALSE, last_ocr_text |-> t, last_app_name |-> app_name]

----------------------------------------------------------------------------
(* capture: the temporary image files                                      *)

\* image_path = None
NoPath == 0

\* take_screenshot: mkstemp makes the file; when screencapture fails the
\* file is removed, unless os.remove fails too, and None is returned
take_screenshot(files, path, returncode, remove_ok) ==
    IF returncode # 0
    THEN [image_path |-> NoPath,
          files |-> IF remove_ok THEN files \ {path} ELSE files \cup {path}]
    ELSE [image_path |-> path, files |-> files \cup {path}]

delete_image_keeps(files, path, remove_ok) == files

\* delete_image: the files after the call; a failure of os.remove is logged
delete_image(files, path, remove_ok) ==
    IF path = NoPath THEN files
    ELSE IF path \in files /\ remove_ok THEN files \ {path} ELSE files

----------------------------------------------------------------------------
(* main: run_main_loop, with the menu thread and the signal handler        *)
(*                                                                         *)
(* The loop thread takes one step per stage of a pass; toggle_pause,       *)
(* set_pause, get_pause_state and signal_handler run on other threads and  *)
(* may come between any two steps.  A stage that calls an OS command or    *)
(* writes a file may raise; the except clause of the loop logs the error   *)
(* and the finally clause runs.                                            *)

\* the attributes of cfg.capture the loop reads
LoopConfigs ==
    [auto_pause : BOOLEAN, pause_on_lock : {TRUE}, pause_on_display_sleep : {FALSE},
     resume_grace_sec : {0, 1}, mode : {"active_window", "fullscreen"}]

\* get_active_window: app a, the excluded app x, a window whose title holds
\* the excluded keyword, and app a when no window id could be read
Windows ==
    {[app_name |-> <<"a">>, window_title |-> <<>>, window_id |-> 1],
     [app_name |-> <<"x">>, window_title |-> <<>>, window_id |-> 1],
     [app_name |-> <<"b">>, window_title |-> <<"k">>, window_id |-> 1],
     [app_name |-> <<"a">>, window_title |-> <<>>, window_id |-> 0]}

NoWindow == [app_name |-> <<>>, window_title |-> <<>>, window_id |-> 0]

\* ocr.extract_text: nothing, a text, a text an exclusion pattern matches
\* and the first text under a line of UI noise
OcrResults == {<<>>, <<"t">>, <<"s">>, <<"n", NL, "t">>}

StageOrder ==
    <<"get_active_window", "should_exclude_pre_capture", "take_screenshot",
      "extract_text", "remove_ui_noise", "should_exclude_post_capture",
      "is_duplicate", "save_log">>

StageIndex(stage) == CHOOSE k \in DOMAIN StageOrder : StageOrder[k] = stage

\* the stage has run and left skip with this value
Ran(stage, skip_after) == Append(stages, [stage |-> stage, skip |-> skip_after])

stage_runs_always(skip_now) == TRUE

\* if not skip:
stage_runs(skip_now) == ~skip_now

\* time.sleep: the clock is read later afterwards
after_sleep(t) == IF t < MaxClock THEN t + 1 ELSE t

capture_rest == <<core_vars, raised, earlier_vars, menu_vars, cfg, now>>

LoopPcs == {"while", "update", "check", "paused", "window", "pre", "shot", "ocr",
            "noise", "post", "dup", "save", "finally", "sleep"}

InitCapture ==
    /\ pc = "while"
    /\ cfg \in LoopConfigs
    /\ manual_paused = FALSE /\ auto_paused = FALSE
    /\ resume_block_until = NoDeadline /\ auto_pause_reason = <<>>
    /\ time_now = 0
    /\ running = TRUE /\ iteration = 0 /\ skip = FALSE /\ image_path = NoPath
    /\ window = NoWindow /\ current_ocr_text = <<>> /\ stages = <<>>
    /\ temp_dir = {} /\ remove_failed = {}
    /\ last_ocr_text = Unset /\ last_app_name = Unset
    /\ now = 0 /\ store = [day \in Days |-> <<>>] /\ saved = <<>>
    /\ raised = "none"
    /\ IdleEarlier /\ IdleMenu
    /\ IdleSessions /\ IdleGroups /\ IdleChunks /\ IdleReport

\* while running: the next pass begins
LoopContinues ==
    /\ pc = "while"
    /\ running
    /\ iteration < MaxIterations
    /\ pc' = "update"
    /\ UNCHANGED <<capture_rest, store, saved, manual_paused, auto_paused,
                   resume_block_until, auto_pause_reason, time_now, capture_vars>>

\* while running: the loop ends
LoopExits ==
    /\ pc = "while"
    /\ ~running
    /\ pc' = "exited"
    /\ UNCHANGED <<capture_rest, store, saved, manual_paused, auto_paused,
                   resume_block_until, auto_pause_reason, time_now, capture_vars>>

\* update_auto_pause_state(cfg) at the head of the pass
LoopUpdatesAutoPause ==
    /\ pc = "update"
    /\ \E locked \in BOOLEAN, asleep \in BOOLEAN :
           LET after == update_auto_pause_state(PauseGlobals, cfg, locked, asleep, time_now)
           IN  /\ auto_paused' = after.auto_paused
               /\ auto_pause_reason' = after.auto_pause_reason
               /\ resume_block_until' = after.resume_block_until
    /\ pc' = "check"
    /\ UNCHANGED <<capture_rest, store, saved, manual_paused, time_now, capture_vars>>

\* if is_effectively_paused(): is_resume_waiting is called only when neither
\* flag is set
PauseCheck ==
    /\ pc = "check"
    /\ LET waiting == is_resume_waiting(resume_block_until, time_now)
       IN  IF manual_paused \/ auto_paused
           THEN pc' = "paused" /\ UNCHANGED resume_block_until
           ELSE /\ resume_block_until' = waiting.resume_block_until
                /\ pc' = IF waiting.waiting THEN "paused" ELSE "window"
    /\ UNCHANGED <<capture_rest, store, saved, manual_paused, auto_paused,
                   auto_pause_reason, time_now, capture_vars>>

\* time.sleep(cfg.capture.paused_poll_interval); continue
PausedSleep ==
    /\ pc = "paused"
    /\ time_now' = after_sleep(time_now)
    /\ pc' = "while"
    /\ UNCHANGED <<capture_rest, store, saved, manual_paused, auto_paused,
                   resume_block_until, auto_pause_reason, capture_vars>>

\* skip = False, image_path = None and stage 1, get_active_window
GetActiveWindow ==
    /\ pc = "window"
    /\ iteration' = iteration + 1
    /\ image_path' = NoPath
    /\ \E active \in Windows :
           /\ window' = active
           /\ skip' = (cfg.mode = "active_window" /\ active.window_id = 0)
           /\ stages' = <<[stage |-> "get_active_window", skip |-> skip']>>
    /\ pc' = "pre"
    /\ UNCHANGED <<capture_rest, store, saved, pause_vars, running, current_ocr_text,
                   temp_dir, remove_failed, filter_vars>>

\* get_active_window raises
GetActiveWindowRaises ==
    /\ pc = "window"
    /\ iteration' = iteration + 1
    /\ image_path' = NoPath
    /\ skip' = FALSE
    /\ stages' = <<>>
    /\ pc' = "finally"
    /\ UNCHANGED <<capture_rest, store, saved, pause_vars, running, window,
                   current_ocr_text, temp_dir, remove_failed, filter_vars>>

\* stage 2, should_exclude_pre_capture
PreCapture ==
    /\ pc = "pre"
    /\ IF stage_runs(skip)
       THEN /\ skip' = should_exclude_pre_capture(window, FilterConfig)
            /\ stages' = Ran("should_exclude_pre_capture", skip')
       ELSE UNCHANGED <<skip, stages>>
    /\ pc' = "shot"
    /\ UNCHANGED <<capture_rest, store, saved, pause_vars, running, iteration, image_path,
                   window, current_ocr_text, temp_dir, remove_failed, filter_vars>>

\* stage 3, take_screenshot; the file of a pass is named after the pass
TakeScreenshot ==
    /\ pc = "shot"
    /\ IF stage_runs(skip)
       THEN \E returncode \in {0, 1}, remove_ok \in BOOLEAN :
                LET shot == take_screenshot(temp_dir, iteration, returncode, remove_ok)
                IN  /\ image_path' = shot.image_path
                    /\ temp_dir' = shot.files
                    /\ remove_failed' = IF returncode # 0 /\ ~remove_ok
                                        THEN remove_failed \cup {iteration}
                                        ELSE remove_failed
                    /\ skip' = (shot.image_path = NoPath)
                    /\ stages' = Ran("take_screenshot", skip')
       ELSE UNCHANGED <<image_path, temp_dir, remove_failed, skip, stages>>
    /\ pc' = "ocr"
    /\ UNCHANGED <<capture_rest, store, saved, pause_vars, running, iteration, window,
                   current_ocr_text, filter_vars>>

\* stage 4, ocr_text = "" and ocr.extract_text
ExtractText ==
    /\ pc = "ocr"
    /\ IF stage_runs(skip) /\ image_path # NoPath
       THEN /\ current_ocr_text' \in OcrResults
            /\ stages' = Ran("extract_text", skip)
       ELSE /\ current_ocr_text' = <<>>
            /\ UNCHANGED stages
    /\ pc' = "noise"
    /\ UNCHANGED <<capture_rest, store, saved, pause_vars, running, iteration, skip,
                   image_path, window, temp_dir, remove_failed, filter_vars>>

\* ocr.extract_text raises
ExtractTextRaises ==
    /\ pc = "ocr"
    /\ stage_runs(skip) /\ image_path # NoPath
    /\ current_ocr_text' = <<>>
    /\ pc' = "finally"
    /\ UNCHANGED <<capture_rest, store, saved, pause_vars, running, iteration, skip,
                   image_path, window, stages, temp_dir, remove_failed, filter_vars>>

\* stage 5, remove_ui_noise
RemoveUiNoise ==
    /\ pc = "noise"
    /\ IF stage_runs(skip) /\ current_ocr_text # <<>>
       THEN /\ current_ocr_text' = remove_ui_noise(current_ocr_text, FilterConfig)
            /\ stages' = Ran("remove_ui_noise", skip)
       ELSE UNCHANGED <<current_ocr_text, stages>>
    /\ pc' = "post"
    /\ UNCHANGED <<capture_rest, store, saved, pause_vars, running, iteration, skip,
                   image_path, window, temp_dir, remove_failed, filter_vars>>

\* stage 6, should_exclude_post_capture
PostCapture ==
    /\ pc = "post"
    /\ IF stage_runs(skip)
       THEN /\ skip' = should_exclude_post_capture(current_ocr_text, FilterConfig)
            /\ stages' = Ran("should_exclude_post_capture", skip')
       ELSE UNCHANGED <<skip, stages>>
    /\ pc' = "dup"
    /\ UNCHANGED <<capture_rest, store, saved, pause_vars, running, iteration, image_path,
                   window, current_ocr_text, temp_dir, remove_failed, filter_vars>>

\* stage 7, is_duplicate
IsDuplicate ==
    /\ pc = "dup"
    /\ IF stage_runs(skip)
       THEN LET verdict == is_duplicate(current_ocr_text, window.app_name,
                                        last_ocr_text, last_app_name, FilterConfig)
            IN  /\ skip' = verdict.is_dup
                /\ last_ocr_text' = verdict.last_ocr_text
                /\ last_app_name' = verdict.last_app_name
                /\ stages' = Ran("is_duplicate", skip')
       ELSE UNCHANGED <<skip, filter_vars, stages>>
    /\ pc' = "save"
    /\ UNCHANGED <<capture_rest, store, saved, pause_vars, running, iteration, image_path,
                   window, current_ocr_text, temp_dir, remove_failed>>

\* stage 8, storage.save_log returns
LoopSavesLog ==
    /\ pc = "save"
    /\ IF stage_runs(skip)
       THEN LET json_line == json_line_of(log_entry_of(now, window.app_name,
                                                       window.window_title,
                                                       current_ocr_text))
                today == today_of(now)
            IN  /\ store' = [store EXCEPT ![today] = write_appending(@, json_line)]
                /\ saved' = Append(saved, [day |-> today, line |-> json_line])
                /\ stages' = Ran("save_log", skip)
       ELSE UNCHANGED <<store, saved, stages>>
    /\ pc' = "finally"
    /\ UNCHANGED <<capture_rest, pause_vars, running, iteration, skip, image_path, window,
                   current_ocr_text, temp_dir, remove_failed, filter_vars>>

\* storage.save_log raises
LoopSaveLogRaises ==
    /\ pc = "save"
    /\ stage_runs(skip)
    /\ pc' = "finally"
    /\ UNCHANGED <<capture_rest, store, saved, pause_vars, capture_vars>>

\* finally: delete_image, whose result is not looked at; then, if running,
\* time.sleep(cfg.capture.interval) comes next
Finally ==
    /\ pc = "finally"
    /\ \E remove_ok \in BOOLEAN :
           /\ temp_dir' = delete_image(temp_dir, image_path, remove_ok)
           /\ remove_failed' = IF image_path \in temp_dir /\ ~remove_ok
                               THEN remove_failed \cup {image_path}
                               ELSE remove_failed
    /\ pc' = IF running THEN "sleep" ELSE "while"
    /\ UNCHANGED <<capture_rest, store, saved, pause_vars, loop_vars, filter_vars>>

\* time.sleep(cfg.capture.interval)
IntervalSleep ==
    /\ pc = "sleep"
    /\ time_now' = after_sleep(time_now)
    /\ pc' = "while"
    /\ UNCHANGED <<capture_rest, store, saved, manual_paused, auto_paused,
                   resume_block_until, auto_pause_reason, capture_vars>>

\* the menu thread: toggle_pause()
TogglePause ==
    /\ pc \in LoopPcs
    /\ manual_paused' = ~manual_paused
    /\ UNCHANGED <<pc, capture_rest, store, saved, auto_paused, resume_block_until,
                   auto_pause_reason, time_now, capture_vars>>

\* another thread: set_pause(state)
SetPause ==
    /\ pc \in LoopPcs
    /\ \E state \in BOOLEAN : manual_paused' = state
    /\ UNCHANGED <<pc, capture_rest, store, saved, auto_paused, resume_block_until,
                   auto_pause_reason, time_now, capture_vars>>

\* the menu thread: get_pause_state(), which calls is_resume_waiting()
GetPauseState ==
    /\ pc \in LoopPcs
    /\ resume_block_until' = is_resume_waiting(resume_block_until, time_now).resume_block_until
    /\ UNCHANGED <<pc, capture_rest, store, saved, manual_paused, auto_paused,
                   auto_pause_reason, time_now, capture_vars>>

\* signal_handler
SignalHandler ==
    /\ pc \in LoopPcs
    /\ running
    /\ running' = FALSE
    /\ UNCHANGED <<pc, capture_rest, store, saved, pause_vars, iteration, skip, image_path,
                   window, current_ocr_text, stages, temp_dir, remove_failed, filter_vars>>

NextCapture ==
    \/ LoopContinues \/ LoopExits \/ LoopUpdatesAutoPause \/ PauseCheck \/ PausedSleep
    \/ GetActiveWindow \/ GetActiveWindowRaises \/ PreCapture \/ TakeScreenshot
    \/ ExtractText \/ ExtractTextRaises \/ RemoveUiNoise \/ PostCapture \/ IsDuplicate
    \/ LoopSavesLog \/ LoopSaveLogRaises \/ Finally \/ IntervalSleep
    \/ TogglePause \/ SetPause \/ GetPauseState \/ SignalHandler

SpecCapture == InitCapture /\ [][NextCapture]_vars

StagesRun == {stages[k].stage : k \in DOMAIN stages}

\* C27: in every pass of the capture loop the stages run in the fixed order
\* and none runs after a stage that set skip; a record is saved only by the
\* save stage, after every earlier stage ran and passed; when the pre-capture
\* exclusion matches the window there is no screenshot, no OCR and no save;
\* when the screenshot fails, the post-capture exclusion matches or the text
\* is a duplicate there is no save; at most one record is saved per pass.
C27_StagesInOrder ==
    /\ [](pc \in LoopPcs \cup {"exited"} =>
            /\ \A j, k \in DOMAIN stages :
                   j < k => StageIndex(stages[j].stage) < StageIndex(stages[k].stage)
            /\ \A k \in DOMAIN stages : stages[k].skip => k = Len(stages)
            /\ "save_log" \in StagesRun =>
                   {StageOrder[k] : k \in DOMAIN StageOrder} \ {"remove_ui_noise"}
                       \subseteq StagesRun
            /\ ("should_exclude_pre_capture" \in StagesRun
                    /\ should_exclude_pre_capture(window, FilterConfig)) =>
                   StagesRun \cap {"take_screenshot", "extract_text", "save_log"} = {}
            /\ ("take_screenshot" \in StagesRun /\ image_path = NoPath) =>
                   "save_log" \notin StagesRun
            /\ ("should_exclude_post_capture" \in StagesRun
                    /\ should_exclude_post_capture(current_ocr_text, FilterConfig)) =>
                   "save_log" \notin StagesRun
            /\ (\E k \in DOMAIN stages : stages[k].stage = "is_duplicate" /\ stages[k].skip) =>
                   "save_log" \notin StagesRun
            /\ Len(saved) <= iteration)
    /\ [][saved' # saved =>
            /\ pc = "save" /\ ~skip
            /\ Len(saved') = Len(saved) + 1
            /\ stages' = Append(stages, [stage |-> "save_log", skip |-> FALSE])]_vars

\* a pass ran all eight stages and saved its record, the second of the run
C27_Witness ==
    /\ pc = "finally"
    /\ Len(stages) = 8 /\ stages[8].stage = "save_log"
    /\ Len(saved) = 2

\* a pass ended at the pre-capture exclusion
C27_WitnessExcluded ==
    /\ pc = "finally"
    /\ Len(stages) = 2 /\ stages[2].skip
    /\ should_exclude_pre_capture(window, FilterConfig)
    /\ temp_dir = {}

\* a pass ended at the duplicate check
C27_WitnessDuplicate ==
    /\ pc = "finally"
    /\ stages # <<>>
    /\ stages[Len(stages)] = [stage |-> "is_duplicate", skip |-> TRUE]
    /\ Len(saved) = 1

\* a resume deadline is set and not yet reached
ResumePending == resume_block_until # NoDeadline /\ time_now < resume_block_until

EffectivelyPaused == manual_paused \/ auto_paused \/ ResumePending

\* C25: while capture is effectively paused (manual pause set, auto-pause
\* active or resume grace pending) no step of the capture loop creates a
\* screenshot file or appends a record to the store.
C25_NoCaptureWhilePaused ==
    [][EffectivelyPaused => (store' = store /\ saved' = saved /\ temp_dir' \subseteq temp_dir)]_vars

\* the pause was set after the pause check of a pass and the pass has saved
\* its record
C25_SavedWhilePaused ==
    /\ pc = "finally"
    /\ manual_paused
    /\ "save_log" \in StagesRun

\* the most recent record the process appended to the store
LastSaved == saved[Len(saved)].line.entry

BetweenPasses == pc \in {"while", "update", "check", "paused", "sleep", "exited"}

\* C28: after any sequence of passes the remembered text and app of the
\* duplicate filter are those of the most recent record appended to the
\* store, or unset when none was appended; and a pass that ends at the
\* duplicate check was compared with the text of a saved record.
C28_RememberedIsLastSaved ==
    /\ BetweenPasses =>
           IF saved = <<>>
           THEN last_ocr_text = Unset /\ last_app_name = Unset
           ELSE last_ocr_text = LastSaved.ocr_text /\ last_app_name = LastSaved.app_name
    /\ (pc = "save" /\ skip /\ "is_duplicate" \in StagesRun) =>
           saved # <<>> /\ last_ocr_text = LastSaved.ocr_text

\* a capture was suppressed as a duplicate although no record was ever saved
C28_SuppressedByUnsaved ==
    /\ pc = "save" /\ skip /\ "is_duplicate" \in StagesRun
    /\ saved = <<>>

C29_FileLeft ==
    /\ pc = "sleep"
    /\ image_path # NoPath /\ image_path \in temp_dir

C29_WitnessRaised ==
    /\ pc = "sleep"
    /\ image_path # NoPath
    /\ "extract_text" \notin StagesRun
    /\ temp_dir = {}

----------------------------------------------------------------------------
(* menu_bar: "generate today's report"                                     *)
(*                                                                         *)
(* The click starts a thread that runs _generate.  The titles of the menu  *)
(* bar and of the notifications are written in Latin letters.              *)

\* the parameters of report.generate_report_for_date, none with a default
GenerateReportParameters == <<"target_date", "cfg">>

\* the keyword arguments of the call in _generate, after two positional ones
MenuCallKeywords == {"progress_callback"}

\* whether a call with so many positional arguments and these keyword
\* arguments binds to the parameters; when it does not, Python raises
\* TypeError before the body of the function runs
binds(parameters, positional, keywords) ==
    LET rest == {parameters[k] : k \in (positional + 1)..Len(parameters)}
    IN  /\ positional <= Len(parameters)
        /\ keywords \subseteq rest
        /\ rest \subseteq keywords

InitMenuReport ==
    /\ pc = "menu"
    /\ title = "SnapLog" /\ notifications = <<>> /\ target_date = 0
    /\ log_file \in DayFiles
    /\ gap_minutes = 1
    /\ chunk_chars = 500
    /\ mask_sensitive = FALSE
    /\ logs = <<>> /\ sessions = <<>>
    /\ session_groups = <<>> /\ session_chunks = <<>>
    /\ chunks = <<>>
    /\ i = 0 /\ report_chunks = <<>> /\ calls = <<>>
    /\ combined_report = <<>>
    /\ report_file \in {NoFile, OldReport}
    /\ raised = "none"
    /\ IdleRequest /\ IdleStore /\ IdlePause /\ IdleCapture
    /\ IdleGroups /\ text = <<>> /\ max_chars = 0

menu_rest == <<core_vars, request_vars, store_vars, file_vars, format_vars,
               preprocess_vars, pause_vars, capture_vars>>

\* generate_today_report: the click makes the thread and starts it
ClickGenerateTodayReport ==
    /\ pc = "menu"
    /\ pc' = "thread"
    /\ UNCHANGED <<menu_rest, raised, menu_vars>>

\* _generate: the title, the first notification and today's date
GenerateBegins ==
    /\ pc = "thread"
    /\ title' = "preparing"
    /\ notifications' = Append(notifications, "started")
    /\ target_date' = today_of(now)
    /\ pc' = "call"
    /\ UNCHANGED <<menu_rest, raised>>

\* _generate: the call of report_module.generate_report_for_date
CallGenerateReport ==
    /\ pc = "call"
    /\ IF binds(GenerateReportParameters, 2, MenuCallKeywords)
       THEN pc' = "day_preprocess" /\ UNCHANGED raised
       ELSE pc' = "except" /\ raised' = "TypeError"
    /\ UNCHANGED <<menu_rest, menu_vars>>

\* _generate: except Exception
GenerateExcept ==
    /\ pc = "except"
    /\ title' = "SnapLog"
    /\ notifications' = Append(notifications, "error")
    /\ pc' = "menu_done"
    /\ UNCHANGED <<menu_rest, raised, target_date>>

MenuThread == GenerateBegins \/ CallGenerateReport \/ GenerateExcept

NextMenuReport ==
    ClickGenerateTodayReport \/ GenerateBegins \/ CallGenerateReport \/ GenerateExcept

\* the thread, once started, is scheduled until _generate returns
SpecMenuReport == InitMenuReport /\ [][NextMenuReport]_vars /\ WF_vars(MenuThread)

\* C30: after "generate today's report" is clicked, when today's log has
\* records (and no generation call fails), a report file is eventually
\* written and the completion notification is shown, and the error
\* notification is not shown.
C30_MenuReportCompletes ==
    /\ [](~NoValidRecord => ~InList("error", notifications))
    /\ (pc = "thread" /\ ~NoValidRecord) ~>
           (/\ report_file \notin {NoFile, OldReport}
            /\ InList("completed", notifications))

\* today's log has a record, the thread has ended with the error
\* notification and the report file is as it was
C30_ErrorShown ==
    /\ pc = "menu_done"
    /\ ~NoValidRecord
    /\ notifications = <<"started", "error">>
    /\ raised = "TypeError"
    /\ report_file \in {NoFile, OldReport}

====
